---- MODULE Spec2Model ----
(***************************************************************************)
(* Hikyaku transfer core: FileSystemObject, the chunked download pipeline  *)
(* (services/file_system/download.rs) and the per-chunk upload writer      *)
(* (services/file_system/upload.rs).                                       *)
(***************************************************************************)
EXTENDS Integers, Sequences, FiniteSets, TLC

\* ------------------------------------------------------------------ bounds
MaxFileSize == 4
MaxChunkSize == 3
MaxConcurrency == 2
ChanCap == 2
MaxCalls == 3
MaxUploadSize == 3
MaxInputLen == 5
MaxPathNames == 3
MaxRequests == 4

\* ------------------------------------------------------------ Option<T>
None == <<>>
Some(x) == <<x>>
is_some(o) == Len(o) = 1
is_none(o) == Len(o) = 0
unwrap(o) == o[1]

min(a, b) == IF a <= b THEN a ELSE b
max(a, b) == IF a >= b THEN a ELSE b

\* ------------------------------------------------------------ variables
VARIABLES
    obj,        \* the source FileSystemObject handed to download
    srcData,    \* the bytes of the stream the source object names
    srcFile,    \* Local source: the Arc<Mutex<Option<File>>> slot and its holder
    dlResult,   \* what download returned ("none" before the call)
    tasks,      \* the chunk tasks spawned by download, by offset
    chan,       \* the bounded mpsc channel of ChunkData
    rcvd,       \* the ChunkData the receiver has taken, in arrival order
    dst,        \* the destination FileSystemObject of partial_upload
    B,          \* the byte string whose chunk plan is uploaded
    dstDisk,    \* Local destination: the bytes at the path (None: no file)
    dstFile,    \* Local destination: the file slot, its holder, the creates and writes made
    calls,      \* the partial_upload calls made so far
    resumable_upload_url, \* Drive destination: the Mutex<Option<String>> slot
    drive,      \* Drive destination: the requests the remote has served
    rx,         \* the receiving end of the channel: "open", "closed" (recv returned None) or "dropped"
    upResult,   \* what upload returned ("none" before the call)
    s3,         \* S3 destination: the requests the remote has served
    input,      \* the string handed to file_system_prefix_parser
    parsed,     \* what the parser returned (None before the call)
    world,      \* what the backends hold when a builder looks: Drive files, S3 objects, the Local path
    res,        \* the Drive resolver: its inputs, its walk and its result
    bld,        \* a FileSystemBuilder: its fields and what build returned
    oauth       \* get_access_token: the token store, the web server's AppState, its handlers

dlVars == <<obj, srcData, srcFile, dlResult, tasks, chan, rcvd, rx, upResult>>
upVars == <<dst, B, dstDisk, dstFile, calls, resumable_upload_url, drive, s3>>
prVars == <<input, parsed>>
blVars == <<world, res, bld>>
oaVars == <<oauth>>
vars == <<obj, srcData, srcFile, dlResult, tasks, chan, rcvd, rx, upResult,
          dst, B, dstDisk, dstFile, calls, resumable_upload_url, drive, s3,
          input, parsed, world, res, bld, oauth>>

\* ------------------------------------------------------------ the object
Backends == {"AmazonS3", "GoogleDrive", "Local"}
Remote == {"AmazonS3", "GoogleDrive"}

\* The bytes of a stream of n bytes: every position holds a distinct value,
\* 0 is kept for the holes a sparse write leaves.
Content(n) == [i \in 1..n |-> i]

FileSystemObject(b, fs, cs, conc, name, residual) ==
    [backend |-> b, file_size |-> fs, chunk_size |-> cs, concurrency |-> conc,
     upload_filename |-> name, not_exist_file_paths |-> residual]


\* mod.rs:44-55
is_downloadable_always(o) == TRUE
is_downloadable(o) == is_some(o.file_size)
chunk_size(o) == o.chunk_size
concurrency(o) == o.concurrency
file_size(o) == o.file_size

ChunkData_new(data, offset, is_last) ==
    [data |-> data, offset |-> offset, is_last |-> is_last]

\* ------------------------------------------------------------ chunk plan
\* download.rs:26
last_offset(o) == (unwrap(file_size(o)) + chunk_size(o) - 1) \div chunk_size(o)

\* download.rs:51-53
plan_start(o, offset) == offset * chunk_size(o)
plan_end_exclusive(o, offset) ==
    min((offset + 1) * chunk_size(o), unwrap(file_size(o)) - 1)
plan_end(o, offset) ==
    min((offset + 1) * chunk_size(o) - 1, unwrap(file_size(o)) - 1)
plan_is_last(o, offset) == plan_end(o, offset) = unwrap(file_size(o)) - 1

\* ------------------------------------------------------------ download
TaskIds == 0..(MaxFileSize - 1)

NoTask == [pc |-> "unspawned", start |-> 0, end |-> 0, is_last |-> FALSE,
           client |-> None, chunk |-> None, err |-> ""]

\* download.rs:21-43. The loop spawns one task per offset and returns Ok
\* without joining any of them.
Download ==
    /\ obj.backend \in Backends
    /\ dlResult = "none"
    /\ IF ~is_downloadable(obj)
       THEN /\ dlResult' = "NotExistFileError"
            /\ UNCHANGED tasks
       ELSE IF is_none(file_size(obj))
       THEN /\ dlResult' = "panic"      \* Option::unwrap on None
            /\ UNCHANGED tasks
       ELSE IF chunk_size(obj) = 0
       THEN /\ dlResult' = "panic"      \* division by zero at download.rs:26
            /\ UNCHANGED tasks
       ELSE /\ dlResult' = "Ok"
            /\ tasks' = [i \in TaskIds |->
                   IF i < last_offset(obj)
                   THEN [NoTask EXCEPT !.pc = "spawned"]
                   ELSE tasks[i]]
    /\ UNCHANGED <<obj, srcData, srcFile, chan, rcvd>>
    /\ UNCHANGED <<rx, upResult>>
    /\ UNCHANGED upVars
    /\ UNCHANGED prVars
    /\ UNCHANGED oaVars
    /\ UNCHANGED blVars

Planned(t, i) ==
    [t EXCEPT !.start = plan_start(obj, i), !.end = plan_end(obj, i),
              !.is_last = plan_is_last(obj, i)]

\* download.rs:62 and :102: clients[(concurrency as u64 % offset) as usize]
client_pick_unchecked(conc, offset) ==
    IF offset = 0 THEN "RemainderByZero" ELSE ""
client_pick_faults(conc, offset) ==
    IF offset = 0 THEN "RemainderByZero"
    ELSE IF conc % offset >= conc THEN "IndexOutOfBounds"
    ELSE ""
client_pick(conc, offset) == conc % offset

\* download.rs:47-62 / 96-102: the plan and the client pick of a remote task.
RemotePick(i) ==
    /\ obj.backend \in Remote
    /\ tasks[i].pc = "spawned"
    /\ LET t == Planned(tasks[i], i)
           f == client_pick_faults(concurrency(obj), i)
       IN  tasks' = [tasks EXCEPT ![i] =
               IF f # ""
               THEN [t EXCEPT !.pc = "panicked", !.err = f]
               ELSE [t EXCEPT !.pc = "reading",
                              !.client = Some(client_pick(concurrency(obj), i))]]
    /\ UNCHANGED <<obj, srcData, srcFile, dlResult, chan, rcvd>>
    /\ UNCHANGED <<rx, upResult>>
    /\ UNCHANGED upVars
    /\ UNCHANGED prVars
    /\ UNCHANGED oaVars
    /\ UNCHANGED blVars

\* What an honest server answers to Range: bytes=start-end.
RangeBody(data, start, end) == SubSeq(data, start + 1, min(end + 1, Len(data)))

\* download.rs:88-92, 136-140, 177-181: bytes[..(end - start + 1)] on the
\* last chunk; a slice longer than the buffer panics.
truncate_faults(bytes, t, fs) ==
    t.end = fs - 1 /\ t.end - t.start + 1 > Len(bytes)
truncate(bytes, t, fs) ==
    IF t.end = fs - 1 THEN SubSeq(bytes, 1, t.end - t.start + 1) ELSE bytes

ReadError == IF obj.backend = "AmazonS3" THEN "S3Error" ELSE "ConnectionError"

\* download.rs:64-94 / 105-142: the ranged read of a remote task.
RemoteRead(i) ==
    /\ obj.backend \in Remote
    /\ tasks[i].pc = "reading"
    /\ \E ok \in BOOLEAN :
        LET t == tasks[i]
            fs == unwrap(file_size(obj))
            body == RangeBody(srcData, t.start, t.end)
        IN  tasks' = [tasks EXCEPT ![i] =
                IF ~ok THEN [t EXCEPT !.pc = "failed", !.err = ReadError]
                ELSE IF truncate_faults(body, t, fs)
                THEN [t EXCEPT !.pc = "panicked", !.err = "SliceOutOfRange"]
                ELSE [t EXCEPT !.pc = "sending",
                        !.chunk = Some(ChunkData_new(truncate(body, t, fs), i, t.is_last))]]
    /\ UNCHANGED <<obj, srcData, srcFile, dlResult, chan, rcvd>>
    /\ UNCHANGED <<rx, upResult>>
    /\ UNCHANGED upVars
    /\ UNCHANGED prVars
    /\ UNCHANGED oaVars
    /\ UNCHANGED blVars

\* download.rs:149-160: take the file mutex, open the file if the slot is
\* empty; a failed open returns ConnectionError and leaves the slot empty.
LocalLock(i) ==
    /\ obj.backend = "Local"
    /\ tasks[i].pc = "spawned"
    /\ is_none(srcFile.holder)
    /\ IF is_some(srcFile.handle)
       THEN /\ tasks' = [tasks EXCEPT ![i] = [Planned(tasks[i], i) EXCEPT !.pc = "locked"]]
            /\ srcFile' = [srcFile EXCEPT !.holder = Some(i)]
       ELSE \E ok \in BOOLEAN :
            IF ok
            THEN /\ tasks' = [tasks EXCEPT ![i] =
                        [Planned(tasks[i], i) EXCEPT !.pc = "locked"]]
                 /\ srcFile' = [handle |-> Some("File::open"), holder |-> Some(i),
                                opens |-> srcFile.opens + 1]
            ELSE /\ tasks' = [tasks EXCEPT ![i] =
                        [Planned(tasks[i], i) EXCEPT !.pc = "failed",
                                                     !.err = "ConnectionError"]]
                 /\ UNCHANGED srcFile
    /\ UNCHANGED <<obj, srcData, dlResult, chan, rcvd>>
    /\ UNCHANGED <<rx, upResult>>
    /\ UNCHANGED upVars
    /\ UNCHANGED prVars
    /\ UNCHANGED oaVars
    /\ UNCHANGED blVars

\* download.rs:162: the buffer of a Local read
part_size(cs, t) == min(cs, t.end - t.start)

\* download.rs:162-185: seek, read_exact, truncate, release the mutex (the
\* guard is dropped on the panic path too).
LocalRead(i) ==
    /\ obj.backend = "Local"
    /\ tasks[i].pc = "locked"
    /\ LET t == tasks[i]
           fs == unwrap(file_size(obj))
           n == part_size(chunk_size(obj), t)
           buf == SubSeq(srcData, t.start + 1, t.start + n)
       IN  tasks' = [tasks EXCEPT ![i] =
               IF t.start + n > Len(srcData)
               THEN [t EXCEPT !.pc = "failed", !.err = "FileOperationError"]
               ELSE IF truncate_faults(buf, t, fs)
               THEN [t EXCEPT !.pc = "panicked", !.err = "SliceOutOfRange"]
               ELSE [t EXCEPT !.pc = "sending",
                       !.chunk = Some(ChunkData_new(truncate(buf, t, fs), i, t.is_last))]]
    /\ srcFile' = [srcFile EXCEPT !.holder = None]
    /\ UNCHANGED <<obj, srcData, dlResult, chan, rcvd>>
    /\ UNCHANGED <<rx, upResult>>
    /\ UNCHANGED upVars
    /\ UNCHANGED prVars
    /\ UNCHANGED oaVars
    /\ UNCHANGED blVars

\* download.rs:36: arc_sender.send(chunk_data).await on the bounded channel
Send(i) ==
    /\ tasks[i].pc = "sending"
    /\ rx = "open"
    /\ Len(chan) < ChanCap
    /\ chan' = Append(chan, unwrap(tasks[i].chunk))
    /\ tasks' = [tasks EXCEPT ![i].pc = "sent"]
    /\ UNCHANGED <<obj, srcData, srcFile, dlResult, rcvd>>
    /\ UNCHANGED <<rx, upResult>>
    /\ UNCHANGED upVars
    /\ UNCHANGED prVars
    /\ UNCHANGED oaVars
    /\ UNCHANGED blVars

\* download.rs:36: send(..).await.unwrap() once the receiver is gone: send
\* returns Err(SendError) and unwrap panics the task. No other task is told.
SendFails(i) ==
    /\ tasks[i].pc = "sending"
    /\ rx = "dropped"
    /\ tasks' = [tasks EXCEPT ![i].pc = "panicked", ![i].err = "SendError"]
    /\ UNCHANGED <<obj, srcData, srcFile, dlResult, chan, rcvd>>
    /\ UNCHANGED <<rx, upResult>>
    /\ UNCHANGED upVars
    /\ UNCHANGED prVars
    /\ UNCHANGED oaVars
    /\ UNCHANGED blVars

\* The owner of the Receiver drops it; what the channel still buffers is
\* dropped with it.
DropReceiver ==
    /\ rx = "open"
    /\ rx' = "dropped"
    /\ chan' = <<>>
    /\ UNCHANGED <<obj, srcData, srcFile, dlResult, tasks, rcvd, upResult>>
    /\ UNCHANGED upVars
    /\ UNCHANGED prVars
    /\ UNCHANGED oaVars
    /\ UNCHANGED blVars

\* upload.rs:21-26: the body of upload is todo!(): the call panics, and the
\* Receiver it was given is dropped by the unwinding.
upload ==
    /\ upResult = "none"
    /\ rx = "open"
    /\ upResult' = "panic"
    /\ rx' = "dropped"
    /\ chan' = <<>>
    /\ UNCHANGED <<obj, srcData, srcFile, dlResult, tasks, rcvd>>
    /\ UNCHANGED upVars
    /\ UNCHANGED prVars
    /\ UNCHANGED oaVars
    /\ UNCHANGED blVars

\* The receiving end of the channel takes the next ChunkData.
Recv ==
    /\ rx = "open"
    /\ chan # <<>>
    /\ rcvd' = Append(rcvd, Head(chan))
    /\ chan' = Tail(chan)
    /\ UNCHANGED <<obj, srcData, srcFile, dlResult, tasks>>
    /\ UNCHANGED <<rx, upResult>>
    /\ UNCHANGED upVars
    /\ UNCHANGED prVars
    /\ UNCHANGED oaVars
    /\ UNCHANGED blVars

\* A task holds its clone of the Arc<Sender> from its spawn to its end, be
\* the end a return or a panic.
HoldsSender(i) == tasks[i].pc \notin {"unspawned", "sent", "failed", "panicked"}

\* As all_senders_dropped, without the clones the tasks hold.
all_senders_dropped_no_tasks == dlResult # "none"
\* download.rs:29-42: the Sender lives in an Arc: download holds one clone
\* until it returns, each task one until it ends.
all_senders_dropped ==
    /\ dlResult # "none"
    /\ \A i \in TaskIds : ~HoldsSender(i)

\* The receiving end finds the channel closed: recv returns None once the
\* buffer is empty and the Sender is dropped.
RecvClosed ==
    /\ rx = "open"
    /\ chan = <<>>
    /\ all_senders_dropped
    /\ rx' = "closed"
    /\ UNCHANGED <<obj, srcData, srcFile, dlResult, tasks, chan, rcvd, upResult>>
    /\ UNCHANGED upVars
    /\ UNCHANGED prVars
    /\ UNCHANGED oaVars
    /\ UNCHANGED blVars

\* ------------------------------------------------------------ upload
\* The bytes a destination that already exists holds before the upload.
OldContent == <<9, 9>>

\* The chunks of the plan of B for a chunk size (download.rs:47-53 applied
\* to a stream holding B).
PlanObject(bytes, cs) == FileSystemObject("Local", Some(Len(bytes)), cs, 1, None, <<>>)
PlanChunk(bytes, cs, i) ==
    LET o == PlanObject(bytes, cs)
    IN  ChunkData_new(SubSeq(bytes, plan_start(o, i) + 1, plan_end(o, i) + 1),
                      i, plan_is_last(o, i))
PlanChunks(bytes, cs) ==
    {PlanChunk(bytes, cs, i) : i \in 0..(last_offset(PlanObject(bytes, cs)) - 1)}

\* ChunkData that belong to no plan of the destination's chunk size: too
\* short or too long, last or not.
Filler(n) == [k \in 1..n |-> 7]
OddChunks(cs) ==
    {ChunkData_new(Filler(n), 1, l) : n \in {cs - 1, cs + 1}, l \in BOOLEAN}

UploadInputs == PlanChunks(B, chunk_size(dst)) \cup OddChunks(chunk_size(dst))

\* upload.rs:30: the per-chunk length check
length_check_ignores_last(o, c) == chunk_size(o) # Len(c.data)
length_check_fails(o, c) == ~c.is_last /\ chunk_size(o) # Len(c.data)

\* upload.rs:35-46: a destination that exists is refused when it is Local
refuses_existing_all(o) == is_downloadable(o)
refuses_existing_none(o) == FALSE
refuses_existing(o) == is_downloadable(o) /\ o.backend = "Local"

NewCall(c, pc, result, why) ==
    [chunk |-> c, pc |-> pc, result |-> result, why |-> why, dir |-> 0, parent |-> ""]

\* upload.rs:29-66: partial_upload from its entry to its first await: the
\* length check, the overwrite check, the S3 arm (which returns Ok at once)
\* and the Drive arm's upload_filename check.
partial_upload(c) ==
    /\ Cardinality(calls) < MaxCalls
    /\ \A k \in calls : k.chunk # c
    /\ calls' = calls \cup {
         IF length_check_fails(dst, c)
         THEN NewCall(c, "done", "UnknownError", "chunk size")
         ELSE IF refuses_existing(dst)
         THEN NewCall(c, "done", "InvalidArgumentError", "already exist")
         ELSE IF dst.backend = "AmazonS3"
         THEN NewCall(c, "done", "Ok", "")
         ELSE IF dst.backend = "GoogleDrive" /\ is_none(dst.upload_filename)
         THEN NewCall(c, "done", "InvalidArgumentError", "upload filename")
         ELSE NewCall(c, "locking", "", "")}
    /\ UNCHANGED <<dst, B, dstDisk, dstFile, resumable_upload_url, drive>>
    /\ UNCHANGED s3
    /\ UNCHANGED dlVars
    /\ UNCHANGED prVars
    /\ UNCHANGED oaVars
    /\ UNCHANGED blVars

Update(k, k2) == (calls \ {k}) \cup {k2}
Finish(k, result, why) == [k EXCEPT !.pc = "done", !.result = result, !.why = why]

\* As LocalUploadLock, with File::create whatever the slot holds.
LocalUploadLock_always_creates(k) ==
    /\ dst.backend = "Local"
    /\ k \in calls /\ k.pc = "locking"
    /\ is_none(dstFile.holder)
    /\ \E ok \in BOOLEAN :
         IF ok
         THEN /\ dstFile' = [dstFile EXCEPT !.handle = Some("File::create"),
                                            !.holder = Some(k.chunk),
                                            !.creates = @ + 1]
              /\ dstDisk' = Some(<<>>)
              /\ calls' = Update(k, [k EXCEPT !.pc = "writing"])
         ELSE /\ calls' = Update(k, Finish(k, "FileOperationError", "create"))
              /\ UNCHANGED <<dstFile, dstDisk>>
    /\ UNCHANGED <<dst, B, resumable_upload_url, drive>>
    /\ UNCHANGED s3
    /\ UNCHANGED dlVars
    /\ UNCHANGED prVars
    /\ UNCHANGED oaVars
    /\ UNCHANGED blVars

\* upload.rs:144-152: take the file mutex; File::create when the slot is
\* empty (creates the file or truncates it); a failed create returns
\* FileOperationError and leaves the slot empty.
LocalUploadLock(k) ==
    /\ dst.backend = "Local"
    /\ k \in calls /\ k.pc = "locking"
    /\ is_none(dstFile.holder)
    /\ IF is_some(dstFile.handle)
       THEN /\ dstFile' = [dstFile EXCEPT !.holder = Some(k.chunk)]
            /\ calls' = Update(k, [k EXCEPT !.pc = "writing"])
            /\ UNCHANGED dstDisk
       ELSE \E ok \in BOOLEAN :
            IF ok
            THEN /\ dstFile' = [dstFile EXCEPT !.handle = Some("File::create"),
                                               !.holder = Some(k.chunk),
                                               !.creates = @ + 1]
                 /\ dstDisk' = Some(<<>>)
                 /\ calls' = Update(k, [k EXCEPT !.pc = "writing"])
            ELSE /\ calls' = Update(k, Finish(k, "FileOperationError", "create"))
                 /\ UNCHANGED <<dstFile, dstDisk>>
    /\ UNCHANGED <<dst, B, resumable_upload_url, drive>>
    /\ UNCHANGED s3
    /\ UNCHANGED dlVars
    /\ UNCHANGED prVars
    /\ UNCHANGED oaVars
    /\ UNCHANGED blVars

\* seek(SeekFrom::Start(start)) then write_all(data): the bytes land at
\* start, a gap past the end of the file reads as zeros.
WriteAppend(disk, start, data) == disk \o data
WriteAt(disk, start, data) ==
    [p \in 1..max(Len(disk), start + Len(data)) |->
        IF p > start /\ p <= start + Len(data) THEN data[p - start]
        ELSE IF p <= Len(disk) THEN disk[p]
        ELSE 0]

\* upload.rs:139-142, 154-167: seek, write_all, release the mutex; a failed
\* seek or write returns FileOperationError.
LocalUploadWrite(k) ==
    /\ dst.backend = "Local"
    /\ k \in calls /\ k.pc = "writing"
    /\ \E ok \in BOOLEAN :
        IF ok
        THEN /\ dstDisk' = Some(WriteAt(unwrap(dstDisk),
                                        k.chunk.offset * chunk_size(dst), k.chunk.data))
             /\ dstFile' = [dstFile EXCEPT !.holder = None,
                                           !.writes = Append(@, k.chunk.offset)]
             /\ calls' = Update(k, Finish(k, "Ok", ""))
        ELSE /\ dstFile' = [dstFile EXCEPT !.holder = None]
             /\ calls' = Update(k, Finish(k, "FileOperationError", "write"))
             /\ UNCHANGED dstDisk
    /\ UNCHANGED <<dst, B, resumable_upload_url, drive>>
    /\ UNCHANGED s3
    /\ UNCHANGED dlVars
    /\ UNCHANGED prVars
    /\ UNCHANGED oaVars
    /\ UNCHANGED blVars

\* The id of the anchor the resolver found ("" is My Drive root).
AnchorId == "anchor"
FolderId(n) == <<"folder", n>>

DriveLock_unlocked(k) ==
    /\ dst.backend = "GoogleDrive"
    /\ k \in calls /\ k.pc = "locking"
    /\ IF is_some(resumable_upload_url.url)
       THEN /\ calls' = Update(k, Finish(k, "Ok", ""))
            /\ UNCHANGED resumable_upload_url
       ELSE /\ resumable_upload_url' =
                   [resumable_upload_url EXCEPT !.holder = Some(k.chunk)]
            /\ calls' = Update(k,
                   [k EXCEPT !.pc = IF dst.not_exist_file_paths = <<>>
                                    THEN "initiating" ELSE "creating",
                             !.parent = AnchorId])
    /\ UNCHANGED <<dst, B, dstDisk, dstFile, drive>>
    /\ UNCHANGED s3
    /\ UNCHANGED dlVars
    /\ UNCHANGED prVars
    /\ UNCHANGED oaVars
    /\ UNCHANGED blVars

\* upload.rs:71-87, 135-136: take the resumable-URL mutex. With a URL in the
\* slot the call returns Ok; otherwise it starts from the anchor id.
DriveLock(k) ==
    /\ dst.backend = "GoogleDrive"
    /\ k \in calls /\ k.pc = "locking"
    /\ is_none(resumable_upload_url.holder)
    /\ IF is_some(resumable_upload_url.url)
       THEN /\ calls' = Update(k, Finish(k, "Ok", ""))
            /\ UNCHANGED resumable_upload_url
       ELSE /\ resumable_upload_url' =
                   [resumable_upload_url EXCEPT !.holder = Some(k.chunk)]
            /\ calls' = Update(k,
                   [k EXCEPT !.pc = IF dst.not_exist_file_paths = <<>>
                                    THEN "initiating" ELSE "creating",
                             !.parent = AnchorId])
    /\ UNCHANGED <<dst, B, dstDisk, dstFile, drive>>
    /\ UNCHANGED s3
    /\ UNCHANGED dlVars
    /\ UNCHANGED prVars
    /\ UNCHANGED oaVars
    /\ UNCHANGED blVars

\* upload.rs:81-84, 172-215: create_dir for the next residual segment under
\* the id threaded so far; a failed request returns GoogleDriveError.
DriveCreateDir(k) ==
    /\ dst.backend = "GoogleDrive"
    /\ k \in calls /\ k.pc = "creating"
    /\ \E ok \in BOOLEAN :
        IF ok
        THEN LET id == FolderId(Len(drive.folders) + 1)
                 n == k.dir + 1
             IN  /\ drive' = [drive EXCEPT !.folders = Append(@,
                        [name |-> dst.not_exist_file_paths[n], parent |-> k.parent])]
                 /\ calls' = Update(k,
                        [k EXCEPT !.dir = n, !.parent = id,
                                  !.pc = IF n = Len(dst.not_exist_file_paths)
                                         THEN "initiating" ELSE "creating"])
                 /\ UNCHANGED resumable_upload_url
        ELSE /\ calls' = Update(k, Finish(k, "GoogleDriveError", "create directory"))
             /\ resumable_upload_url' = [resumable_upload_url EXCEPT !.holder = None]
             /\ UNCHANGED drive
    /\ UNCHANGED <<dst, B, dstDisk, dstFile>>
    /\ UNCHANGED s3
    /\ UNCHANGED dlVars
    /\ UNCHANGED prVars
    /\ UNCHANGED oaVars
    /\ UNCHANGED blVars

\* upload.rs:89-136: the resumable-upload initiation; the Location header is
\* stored in the slot and the call returns Ok.
DriveInit(k) ==
    /\ dst.backend = "GoogleDrive"
    /\ k \in calls /\ k.pc = "initiating"
    /\ \E ok \in BOOLEAN :
        IF ok
        THEN /\ drive' = [drive EXCEPT !.sessions = Append(@,
                    [name |-> unwrap(dst.upload_filename), parent |-> k.parent])]
             /\ resumable_upload_url' =
                    [url |-> Some(<<"session", Len(drive.sessions) + 1>>), holder |-> None]
             /\ calls' = Update(k, Finish(k, "Ok", ""))
        ELSE /\ calls' = Update(k, Finish(k, "GoogleDriveError", "resumable URL"))
             /\ resumable_upload_url' = [resumable_upload_url EXCEPT !.holder = None]
             /\ UNCHANGED drive
    /\ UNCHANGED <<dst, B, dstDisk, dstFile>>
    /\ UNCHANGED s3
    /\ UNCHANGED dlVars
    /\ UNCHANGED prVars
    /\ UNCHANGED oaVars
    /\ UNCHANGED blVars

\* ------------------------------------------------------------ parser
\* A string is the sequence of its characters; the text of a scheme ("file:",
\* "s3:", "gd:", "gds:", or the unsupported "ftp:") is one symbol that can only
\* stand first.
Chars == {"/", ".", "a", "\n"}
Schemes == {"file:", "s3:", "gd:", "gds:", "ftp:"}
Strings(n) == UNION {[1..k -> Chars] : k \in 0..n}
Inputs == Strings(MaxInputLen) \cup {<<sc>> \o r : sc \in Schemes, r \in Strings(MaxInputLen)}

starts_with(str, pat) == Len(str) >= Len(pat) /\ SubSeq(str, 1, Len(pat)) = pat
contains(str, pat) ==
    \E i \in 1..(Len(str) - Len(pat) + 1) : SubSeq(str, i, i + Len(pat) - 1) = pat

\* The number of "/" a string starts with, and the position of its last
\* character other than "/" (0 when it has none).
LeadingSlashes(str) ==
    IF \E i \in 1..Len(str) : str[i] # "/"
    THEN (CHOOSE i \in 1..Len(str) : str[i] # "/" /\ \A j \in 1..(i - 1) : str[j] = "/") - 1
    ELSE Len(str)
LastNonSlash(str) ==
    IF \E i \in 1..Len(str) : str[i] # "/"
    THEN CHOOSE i \in 1..Len(str) : str[i] # "/" /\ \A j \in (i + 1)..Len(str) : str[j] = "/"
    ELSE 0

\* What "." of a regex matches: any character but a line feed.
DotMatches(str) == \A i \in 1..Len(str) : str[i] # "\n"

\* parser.rs:8: captures of ^/*([^/]+)/?(.*?[^/])?/*$ : None when the string
\* does not match, else group 1 and group 2 (None when it took no part).
\* Group 1 is the longest run without "/" after the leading slashes; group 2
\* runs from behind the one "/" that follows it to the last character other
\* than "/", and all but its last character must be matched by ".".
namespace_path_captures(str) ==
    LET lead == LeadingSlashes(str)
    IN  IF lead = Len(str) THEN None
        ELSE LET after == SubSeq(str, lead + 1, Len(str))
                 e == IF \E i \in 1..Len(after) : after[i] = "/"
                      THEN (CHOOSE i \in 1..Len(after) :
                               after[i] = "/" /\ \A j \in 1..(i - 1) : after[j] # "/") - 1
                      ELSE Len(after)
                 tail == SubSeq(after, e + 1, Len(after))
                 j == LastNonSlash(tail)
             IN  IF j = 0
                 THEN Some([g1 |-> SubSeq(after, 1, e), g2 |-> None])
                 ELSE IF DotMatches(SubSeq(tail, 2, j - 1))
                 THEN Some([g1 |-> SubSeq(after, 1, e), g2 |-> Some(SubSeq(tail, 2, j))])
                 ELSE None

\* parser.rs:132: captures of ^/*(.*[^/])/*$ : None when the string does not
\* match, else group 1: from behind the leading slashes to the last character
\* other than "/", all but the last matched by ".".
path_captures(str) ==
    LET lead == LeadingSlashes(str)
        j == LastNonSlash(str)
    IN  IF j = 0 THEN None
        ELSE IF DotMatches(SubSeq(str, lead + 1, j - 1))
        THEN Some(SubSeq(str, lead + 1, j))
        ELSE None

Prefix(sc) == <<sc, "/", "/">>
ParseOk(prefix, namespace, path) ==
    [kind |-> "Ok", prefix |-> prefix, namespace |-> namespace, path |-> path]
ParseErr(kind) ==
    [kind |-> kind, prefix |-> <<>>, namespace |-> None, path |-> <<>>]

\* parser.rs:53-152
file_system_prefix_parser(in) ==
    LET prefix == IF starts_with(in, Prefix("file:")) THEN Prefix("file:")
                  ELSE IF starts_with(in, Prefix("s3:")) THEN Prefix("s3:")
                  ELSE IF starts_with(in, Prefix("gd:")) THEN Prefix("gd:")
                  ELSE IF starts_with(in, Prefix("gds:")) THEN Prefix("gds:")
                  ELSE <<>>
        path == SubSeq(in, Len(prefix) + 1, Len(in))
    IN  IF prefix = <<>> THEN ParseErr("InvalidArgumentError")
        ELSE IF prefix \in {Prefix("s3:"), Prefix("gds:")}
        THEN LET cap == namespace_path_captures(path)
             IN  IF is_none(cap) THEN ParseErr("InvalidArgumentError")
                 ELSE LET p == IF is_some(unwrap(cap).g2)
                               THEN unwrap(unwrap(cap).g2) ELSE <<>>
                      IN  IF contains(p, <<"/", "/">>) \/ starts_with(p, <<"/">>)
                          THEN ParseErr("InvalidArgumentError")
                          ELSE ParseOk(prefix, Some(unwrap(cap).g1), p)
        ELSE IF contains(path, <<"/", "/">>) THEN ParseErr("InvalidArgumentError")
        ELSE IF path = <<>> \/ path = <<"/">> THEN ParseOk(prefix, None, path)
        ELSE IF is_none(path_captures(path))
        THEN ParseErr("panic")           \* Option::unwrap on None
        ELSE ParseOk(prefix, None, unwrap(path_captures(path)))

\* A caller parses the string it was given.
Parse ==
    /\ is_none(parsed)
    /\ parsed' = Some(file_system_prefix_parser(input))
    /\ UNCHANGED input
    /\ UNCHANGED dlVars
    /\ UNCHANGED upVars
    /\ UNCHANGED blVars
    /\ UNCHANGED oaVars

\* ------------------------------------------------------------ Drive resolver
\* google_drive.rs:242-247: the residual is every name of the path past the
\* ones the resolver found, the last name included.
remain_path(path_names, explored) ==
    SubSeq(path_names, explored + 1, Len(path_names))

\* A Drive file as files.list reports it: id and size (None for a folder);
\* name and parent are what the query is matched against.
DriveFile(id, name, parent, size) ==
    [id |-> id, name |-> name, parent |-> parent, size |-> size]

\* The id of the root the path starts from (My Drive, or the shared drive the
\* namespace names), and of a second shared drive of the same name.
RootId == "root"
OtherRootId == "root2"

\* The files a Drive may hold: two entries named a under the root, an entry b
\* under each of them and an entry a further down; each is a folder or a file
\* of two bytes. A child only exists under a folder that exists.
DriveEntries ==
    {DriveFile(e[1], e[2], e[3], size) :
        e \in {<<"1", <<"a">>, RootId>>, <<"2", <<"a">>, RootId>>,
                <<"3", <<"b">>, "1">>, <<"4", <<"b">>, "2">>, <<"5", <<"a">>, "3">>},
        size \in {None, Some(Len(OldContent))}}
DriveTrees ==
    {t \in SUBSET DriveEntries :
        /\ \A f, g \in t : f.id = g.id => f = g
        /\ \A f \in t : f.parent # RootId =>
               \E g \in t : g.id = f.parent /\ is_none(g.size)}

Names == {<<"a">>, <<"b">>}
PathNames == UNION {[1..k -> Names] : k \in 0..MaxPathNames}

\* The text of a path: its names joined by "/".
RECURSIVE JoinPath(_)
JoinPath(names) ==
    IF names = <<>> THEN <<>>
    ELSE IF Len(names) = 1 THEN names[1]
    ELSE names[1] \o <<"/">> \o JoinPath(Tail(names))

\* The paths handed to the resolver: the paths of up to MaxPathNames names,
\* and some with a "." or ".." segment.
MetaPaths ==
    {JoinPath(p) : p \in {<< <<".">>, <<"a">> >>, << <<"a">>, <<".">>, <<"b">> >>,
                           << <<"a">>, <<".", ".">> >>, << <<".", ".">> >>}}
ResolverPaths == {JoinPath(p) : p \in PathNames} \cup MetaPaths

\* The pieces of a string between its "/".
RECURSIVE SplitSlash(_)
SplitSlash(str) ==
    IF \E i \in 1..Len(str) : str[i] = "/"
    THEN LET i == CHOOSE i \in 1..Len(str) :
                     str[i] = "/" /\ \A j \in 1..(i - 1) : str[j] # "/"
         IN  <<SubSeq(str, 1, i - 1)>> \o SplitSlash(SubSeq(str, i + 1, Len(str)))
    ELSE <<str>>

\* google_drive.rs:97-105: the text after the last "/" of the path, None for
\* an empty path.
get_upload_filename(path) ==
    IF path = <<>> THEN None
    ELSE Some(SplitSlash(path)[Len(SplitSlash(path))])

\* std::path::Path::components (parser.rs:155-158): a leading "/" is the
\* RootDir component, empty pieces are dropped, "." is dropped unless it is
\* the first piece (CurDir), ".." is ParentDir, any other piece is Normal.
RECURSIVE ComponentsFrom(_, _)
ComponentsFrom(pieces, i) ==
    IF i > Len(pieces) THEN <<>>
    ELSE LET piece == pieces[i]
             here == IF piece = <<>> THEN <<>>
                     ELSE IF piece = <<".">>
                     THEN (IF i = 1 THEN <<[kind |-> "CurDir", str |-> piece]>> ELSE <<>>)
                     ELSE IF piece = <<".", ".">>
                     THEN <<[kind |-> "ParentDir", str |-> piece]>>
                     ELSE <<[kind |-> "Normal", str |-> piece]>>
         IN  here \o ComponentsFrom(pieces, i + 1)
components(path) ==
    (IF starts_with(path, <<"/">>) THEN <<[kind |-> "RootDir", str |-> <<"/">>]>> ELSE <<>>)
        \o (IF path = <<>> THEN <<>> ELSE ComponentsFrom(SplitSlash(path), 1))

\* parser.rs:154-175: None stands for Err(InvalidArgumentError).
path_to_names_vec(path, allow_metacharacter) ==
    LET cs == components(path)
    IN  IF ~allow_metacharacter
           /\ \E i \in 1..Len(cs) : cs[i].kind \in {"CurDir", "ParentDir"}
        THEN None
        ELSE Some([i \in 1..Len(cs) |-> cs[i].str])
ParentIdSets == {<<>>, <<RootId>>, <<RootId, OtherRootId>>}

\* google_drive.rs:302-307
initial_parents_none(drives) == {}
initial_parents(drives) ==
    {DriveFile(drives[i], "", "", None) : i \in 1..Len(drives)}

\* google_drive.rs:321-385: files.list with the query of
\* query_statement_builder: the name, and "in parents" of one of the parents
\* only when there is a parent.
query_drive_files(name, parents) ==
    {f \in world.drive :
        /\ f.name = name
        /\ parents # {} => f.parent \in {q.id : q \in parents}}

\* google_drive.rs:234
is_ambiguous_above_two(parent_infos) == Cardinality(parent_infos) > 2
is_ambiguous(parent_infos) == Cardinality(parent_infos) >= 2

NoResult == [kind |-> "none", why |-> "", anchor |-> None, residual |-> <<>>]
NoResolve ==
    [pc |-> "idle", path |-> <<>>, path_names |-> <<>>, parent_ids |-> <<>>,
     explored |-> 0,
     parent_infos |-> {}, queries |-> <<>>, result |-> NoResult]

\* google_drive.rs:231-249: what the resolver returns once its loop is over.
resolve_result(path_names, explored, parent_infos) ==
    IF is_ambiguous(parent_infos)
    THEN [kind |-> "InvalidArgumentError", why |-> "ambiguous",
          anchor |-> None, residual |-> <<>>]
    ELSE [kind |-> "Ok", why |-> "",
          anchor |-> IF parent_infos = {} THEN None
                     ELSE Some(CHOOSE f \in parent_infos : TRUE),
          residual |-> remain_path(path_names, explored)]

\* google_drive.rs:210-219: the resolver is called with the parent ids and the
\* path; a path path_to_names_vec refuses ends it with InvalidArgumentError,
\* and with no name the loop is over at once.
resolve_start(parent_ids, path) ==
    LET names == path_to_names_vec(path, FALSE)
    IN  IF is_none(names)
        THEN [NoResolve EXCEPT
                 !.pc = "done", !.path = path, !.parent_ids = parent_ids,
                 !.result = [kind |-> "InvalidArgumentError", why |-> "metacharacter",
                             anchor |-> None, residual |-> <<>>]]
        ELSE LET path_names == unwrap(names)
             IN  [NoResolve EXCEPT
                    !.pc = IF path_names = <<>> THEN "done" ELSE "walking",
                    !.path = path,
                    !.path_names = path_names,
                    !.parent_ids = parent_ids,
                    !.parent_infos = initial_parents(parent_ids),
                    !.result = IF path_names = <<>>
                               THEN resolve_result(path_names, 0,
                                                   initial_parents(parent_ids))
                               ELSE NoResult]

resolve_path_to_existing_depth(parent_ids, path) ==
    /\ res.pc = "idle"
    /\ res' = resolve_start(parent_ids, path)
    /\ UNCHANGED <<world, bld>>
    /\ UNCHANGED dlVars
    /\ UNCHANGED upVars
    /\ UNCHANGED prVars
    /\ UNCHANGED oaVars

\* As ResolveQuery, with the loop left as soon as an answer holds two files.
ResolveQuery_strict ==
    /\ res.pc = "walking"
    /\ \E ok \in BOOLEAN :
        LET name == res.path_names[res.explored + 1]
            asked == Append(res.queries, [name |-> name, parents |-> res.parent_infos])
            found == query_drive_files(name, res.parent_infos)
        IN  IF ~ok
            THEN res' = [res EXCEPT !.pc = "done", !.queries = asked,
                           !.result = [kind |-> "ConnectionError", why |-> "",
                                       anchor |-> None, residual |-> <<>>]]
            ELSE IF found = {}
            THEN res' = [res EXCEPT !.pc = "done", !.queries = asked,
                           !.result = resolve_result(res.path_names, res.explored,
                                                     res.parent_infos)]
            ELSE IF res.explored + 1 = Len(res.path_names) \/ is_ambiguous(found)
            THEN res' = [res EXCEPT !.pc = "done", !.queries = asked,
                           !.explored = @ + 1, !.parent_infos = found,
                           !.result = resolve_result(res.path_names, res.explored + 1,
                                                     found)]
            ELSE res' = [res EXCEPT !.queries = asked, !.explored = @ + 1,
                                    !.parent_infos = found]
    /\ UNCHANGED <<world, bld>>
    /\ UNCHANGED dlVars
    /\ UNCHANGED upVars
    /\ UNCHANGED prVars
    /\ UNCHANGED oaVars

\* google_drive.rs:221-229: one turn of the loop: the query for the next name;
\* a failed request returns ConnectionError, an empty answer ends the loop, and
\* so does the last name.
ResolveQuery ==
    /\ res.pc = "walking"
    /\ \E ok \in BOOLEAN :
        LET name == res.path_names[res.explored + 1]
            asked == Append(res.queries, [name |-> name, parents |-> res.parent_infos])
            found == query_drive_files(name, res.parent_infos)
        IN  IF ~ok
            THEN res' = [res EXCEPT !.pc = "done", !.queries = asked,
                           !.result = [kind |-> "ConnectionError", why |-> "",
                                       anchor |-> None, residual |-> <<>>]]
            ELSE IF found = {}
            THEN res' = [res EXCEPT !.pc = "done", !.queries = asked,
                           !.result = resolve_result(res.path_names, res.explored,
                                                     res.parent_infos)]
            ELSE IF res.explored + 1 = Len(res.path_names)
            THEN res' = [res EXCEPT !.pc = "done", !.queries = asked,
                           !.explored = @ + 1, !.parent_infos = found,
                           !.result = resolve_result(res.path_names, res.explored + 1,
                                                     found)]
            ELSE res' = [res EXCEPT !.queries = asked, !.explored = @ + 1,
                                    !.parent_infos = found]
    /\ UNCHANGED <<world, bld>>
    /\ UNCHANGED dlVars
    /\ UNCHANGED upVars
    /\ UNCHANGED prVars
    /\ UNCHANGED oaVars

\* ------------------------------------------------------------ builders
\* No object has been built yet.
NoObject == FileSystemObject("-", None, 1, 1, None, <<>>)

\* Before a builder is made and before it has looked at its backend.
NoWorld == [drive |-> {}, s3 |-> {}, local |-> [kind |-> "absent", size |-> 0]]
NoBuilder == [backend |-> "-", file_info |-> None, concurrency |-> 1,
              chunk_size |-> 1, result |-> "none"]

\* file_system_builder/mod.rs:59: 8 * 1024 * 1024
DefaultChunkSize == 8388608

\* file_system_builder/mod.rs:48-68: the builder of a backend as new leaves it.
FileSystemBuilder_new(b, conc) ==
    [backend |-> b, file_info |-> None, concurrency |-> conc,
     chunk_size |-> DefaultChunkSize, result |-> "none"]

\* The strings handed to set_file_path.
BuilderInputs ==
    {<<"a">>,
     Prefix("file:") \o <<"a">>,
     Prefix("s3:") \o <<"a", "/", "a">>,
     Prefix("gd:"),
     Prefix("gd:") \o <<"a">>,
     Prefix("gd:") \o <<"a", "/", "b">>,
     Prefix("gds:") \o <<"a", "/", "a", "/", "b">>}

\* What a builder finds at the one place of its backend: the Local path /a,
\* the objects of bucket a, the files of the Drive.
LocalStates ==
    {[kind |-> "absent", size |-> 0], [kind |-> "dir", size |-> 0],
     [kind |-> "denied", size |-> 0]}
        \cup {[kind |-> "file", size |-> n] : n \in 0..MaxFileSize}
S3Objects == {[key |-> <<"a">>, size |-> 1], [key |-> <<"a", "b">>, size |-> 2]}
BuilderWorlds(b) ==
    IF b = "Local" THEN {[NoWorld EXCEPT !.local = l] : l \in LocalStates}
    ELSE IF b = "AmazonS3" THEN {[NoWorld EXCEPT !.s3 = o] : o \in SUBSET S3Objects}
    ELSE {[NoWorld EXCEPT !.drive = t] : t \in DriveTrees}

Building == bld.backend \in Backends /\ bld.result = "none" /\ obj = NoObject

\* file_system_builder/mod.rs:86-92: a string the parser refuses ends the
\* builder (set_file_path consumes it and returns the error).
set_file_path(path) ==
    /\ Building
    /\ is_none(bld.file_info)
    /\ LET parse_res == file_system_prefix_parser(path)
       IN  bld' = IF parse_res.kind = "Ok"
                  THEN [bld EXCEPT !.file_info = Some(parse_res)]
                  ELSE [bld EXCEPT !.result = "set_file_path failed"]
    /\ UNCHANGED <<world, res>>
    /\ UNCHANGED dlVars
    /\ UNCHANGED upVars
    /\ UNCHANGED prVars
    /\ UNCHANGED oaVars

\* file_system_builder/mod.rs:127-134: a chunk size of 0 is ignored.
builder_chunk_size(n) ==
    /\ Building
    /\ bld' = IF n = 0 THEN bld ELSE [bld EXCEPT !.chunk_size = n]
    /\ UNCHANGED <<world, res>>
    /\ UNCHANGED dlVars
    /\ UNCHANGED upVars
    /\ UNCHANGED prVars
    /\ UNCHANGED oaVars

\* The error build returns when no path was set: mod.rs:181-183 (Local),
\* amazon_s3.rs:60-62 (S3), google_drive.rs:155-157 (Drive).
path_not_set_error(b) ==
    IF b = "Local" THEN "InvalidArgumentError" ELSE "BuilderError"

\* The prefixes the build of a backend accepts: mod.rs:176, amazon_s3.rs:51,
\* google_drive.rs:109.
own_prefixes(b) ==
    IF b = "Local" THEN {Prefix("file:")}
    ELSE IF b = "AmazonS3" THEN {Prefix("s3:")}
    ELSE {Prefix("gd:"), Prefix("gds:")}

\* The checks every build starts with; "" when they pass.
build_refusal(b) ==
    IF is_none(bld.file_info) THEN path_not_set_error(b)
    ELSE IF unwrap(bld.file_info).prefix \notin own_prefixes(b)
    THEN "InvalidArgumentError"
    ELSE ""

\* file_system_builder/mod.rs:173-220: build of the Local builder: metadata
\* of the path gives the size of a regular file, None otherwise; a path that
\* may not be looked at is an InvalidArgumentError.
build_local ==
    /\ Building
    /\ bld.backend = "Local"
    /\ IF build_refusal("Local") # ""
       THEN /\ bld' = [bld EXCEPT !.result = build_refusal("Local")]
            /\ UNCHANGED <<obj, srcData>>
       ELSE IF world.local.kind = "denied"
       THEN /\ bld' = [bld EXCEPT !.result = "InvalidArgumentError"]
            /\ UNCHANGED <<obj, srcData>>
       ELSE /\ bld' = [bld EXCEPT !.result = "Ok"]
            /\ obj' = FileSystemObject("Local",
                          IF world.local.kind = "file"
                          THEN Some(world.local.size) ELSE None,
                          bld.chunk_size, bld.concurrency, None, <<>>)
            /\ srcData' = IF world.local.kind = "file"
                          THEN Content(world.local.size) ELSE <<>>
    /\ UNCHANGED <<srcFile, dlResult, tasks, chan, rcvd, rx, upResult>>
    /\ UNCHANGED <<world, res>>
    /\ UNCHANGED upVars
    /\ UNCHANGED prVars
    /\ UNCHANGED oaVars

\* amazon_s3.rs:90-111: list_objects_v2 with the key as prefix: the size of
\* the object listed when exactly one is, None otherwise.
get_file_size(key) ==
    LET objects == {o \in world.s3 : starts_with(o.key, key)}
    IN  IF Cardinality(objects) # 1 THEN None
        ELSE Some((CHOOSE o \in objects : TRUE).size)

\* amazon_s3.rs:48-88: build of the S3 builder; a failed listing returns
\* ConnectionError.  The object literal at amazon_s3.rs:80-85 names no
\* chunk_size; the object gets the builder's, as in the other two builds.
build_s3 ==
    /\ Building
    /\ bld.backend = "AmazonS3"
    /\ \E ok \in BOOLEAN :
        IF build_refusal("AmazonS3") # ""
        THEN /\ bld' = [bld EXCEPT !.result = build_refusal("AmazonS3")]
             /\ UNCHANGED <<obj, srcData>>
        ELSE IF ~ok
        THEN /\ bld' = [bld EXCEPT !.result = "ConnectionError"]
             /\ UNCHANGED <<obj, srcData>>
        ELSE LET key == unwrap(bld.file_info).path
             IN  /\ bld' = [bld EXCEPT !.result = "Ok"]
                 /\ obj' = FileSystemObject("AmazonS3", get_file_size(key),
                               bld.chunk_size, bld.concurrency, None, <<>>)
                 /\ srcData' = IF \E o \in world.s3 : o.key = key
                               THEN Content((CHOOSE o \in world.s3 : o.key = key).size)
                               ELSE <<>>
    /\ UNCHANGED <<srcFile, dlResult, tasks, chan, rcvd, rx, upResult>>
    /\ UNCHANGED <<world, res>>
    /\ UNCHANGED upVars
    /\ UNCHANGED prVars
    /\ UNCHANGED oaVars

\* google_drive.rs:116-119, 264-291: the ids of the shared drives of a name
\* (one, or two of the same name), or the error of the lookup; no lookup and
\* no ids for My Drive.
get_shared_drive(namespace) ==
    IF is_none(namespace) THEN {[kind |-> "Ok", ids |-> <<>>]}
    ELSE {[kind |-> "Ok", ids |-> <<RootId>>],
          [kind |-> "Ok", ids |-> <<RootId, OtherRootId>>],
          [kind |-> "ConnectionError", ids |-> <<>>],
          [kind |-> "InvalidArgumentError", ids |-> <<>>]}

\* google_drive.rs:96-125: build of the Drive builder up to the resolver's
\* first query: the prefix check, the shared drives of the namespace (one, or
\* two of the same name) and the start of the walk.
build_drive ==
    /\ Building
    /\ bld.backend = "GoogleDrive"
    /\ res.pc = "idle"
    /\ IF build_refusal("GoogleDrive") # ""
       THEN /\ bld' = [bld EXCEPT !.result = build_refusal("GoogleDrive")]
            /\ UNCHANGED res
       ELSE \E shared_drive \in get_shared_drive(unwrap(bld.file_info).namespace) :
              IF shared_drive.kind # "Ok"
              THEN /\ bld' = [bld EXCEPT !.result = shared_drive.kind]
                   /\ UNCHANGED res
              ELSE /\ bld' = [bld EXCEPT !.result = "resolving"]
                   /\ res' = resolve_start(shared_drive.ids,
                                           unwrap(bld.file_info).path)
    /\ UNCHANGED world
    /\ UNCHANGED dlVars
    /\ UNCHANGED upVars
    /\ UNCHANGED prVars
    /\ UNCHANGED oaVars

\* google_drive.rs:122-125, 160-188: the resolver's error is build's error;
\* otherwise the object takes the size of the anchor, the residual and the
\* upload file name.
build_drive_finish ==
    /\ bld.backend = "GoogleDrive"
    /\ bld.result = "resolving"
    /\ res.pc = "done"
    /\ IF res.result.kind # "Ok"
       THEN /\ bld' = [bld EXCEPT !.result = res.result.kind]
            /\ UNCHANGED <<obj, srcData>>
       ELSE LET anchor == res.result.anchor
                size == IF is_some(anchor) THEN unwrap(anchor).size ELSE None
            IN  /\ bld' = [bld EXCEPT !.result = "Ok"]
                /\ obj' = FileSystemObject("GoogleDrive", size, bld.chunk_size,
                              bld.concurrency,
                              get_upload_filename(unwrap(bld.file_info).path),
                              res.result.residual)
                /\ srcData' = IF is_some(size) THEN Content(unwrap(size)) ELSE <<>>
    /\ UNCHANGED <<srcFile, dlResult, tasks, chan, rcvd, rx, upResult>>
    /\ UNCHANGED <<world, res>>
    /\ UNCHANGED upVars
    /\ UNCHANGED prVars
    /\ UNCHANGED oaVars

\* file_system/mod.rs:83-91
set_chunk_size(size) ==
    /\ obj.backend \in Backends
    /\ dlResult = "none"
    /\ obj' = [obj EXCEPT !.chunk_size = size]
    /\ UNCHANGED <<srcData, srcFile, dlResult, tasks, chan, rcvd, rx, upResult>>
    /\ UNCHANGED upVars
    /\ UNCHANGED prVars
    /\ UNCHANGED oaVars
    /\ UNCHANGED blVars

\* ------------------------------------------------------------ OAuth 2.0
\* oauth2.rs:44-50: a Token; expires_at is kept as whether it lies in the
\* future when get_access_token looks.
Token(application_id, scopes, access_token, refresh_token, unexpired) ==
    [application_id |-> application_id, scopes |-> scopes,
     access_token |-> access_token, refresh_token |-> refresh_token,
     unexpired |-> unexpired]

\* The caller's SecretData.client_id and the scopes it asks for; another
\* application of the same provider and another scope list.
ClientId == "app"
OtherClientId == "other app"
RequestedScopes == <<"drive">>
OtherScopes == <<"drive.readonly">>

\* oauth2/stores.rs:33-40: what tokens.json holds for the provider.
StoredTokens ==
    {None} \cup
    {Some(Token(a, sc, "stored", r, u)) :
        a \in {ClientId, OtherClientId}, sc \in {RequestedScopes, OtherScopes},
        r \in {None, Some("stored refresh")}, u \in BOOLEAN}

Requests == 1..MaxRequests

NoRequest ==
    [kind |-> "-", pc |-> "unused", state |-> 0, csrf |-> 0, verifier |-> 0,
     outcome |-> ""]

\* Before get_access_token is called.  The AppState fields are those of
\* web_server.rs:21-29; issued counts the CSRF tokens made so far, requests
\* are the HTTP requests the server has taken, chan is the channel of
\* capacity 1 made at oauth2.rs:242-243.
NoOAuth ==
    [pc |-> "idle", stored |-> None, refresh_used |-> None,
     csrf_token |-> None, pkce_verifier |-> None, shutdown_flag |-> FALSE,
     issued |-> 0, requests |-> [h \in Requests |-> NoRequest],
     chan |-> <<>>, result |-> None, via |-> ""]

OAuthIdle == oauth = NoOAuth

\* oauth2.rs:194-197: the stored token is returned as it is.
token_is_returned(token_info, scopes) ==
    token_info.unexpired /\ scopes = token_info.scopes

\* oauth2.rs:198-209: the stored token that is kept for the refresh.
token_for_refresh(token_info, scopes, client_id) ==
    IF scopes # token_info.scopes THEN None
    ELSE IF client_id # token_info.application_id THEN None
    ELSE Some(token_info)

\* oauth2.rs:190-253: get_access_token up to the web server: the stored token
\* is returned, or refreshed (token_refresh.rs:23-51, which may fail), or the
\* web server is started.
get_access_token ==
    /\ oauth.pc = "called"
    /\ LET stored == oauth.stored
           kept == IF is_none(stored) THEN None
                   ELSE token_for_refresh(unwrap(stored), RequestedScopes, ClientId)
       IN  IF is_some(stored) /\ token_is_returned(unwrap(stored), RequestedScopes)
           THEN oauth' = [oauth EXCEPT !.pc = "returned", !.via = "stored",
                                       !.result = Some(unwrap(stored).access_token)]
           ELSE IF is_some(kept) /\ is_some(unwrap(kept).refresh_token)
           THEN \E ok \in BOOLEAN :
                  IF ok
                  THEN oauth' = [oauth EXCEPT
                          !.pc = "returned", !.via = "refresh",
                          !.refresh_used = kept,
                          !.stored = Some(Token(ClientId, RequestedScopes, "refreshed",
                                                unwrap(kept).refresh_token, TRUE)),
                          !.result = Some("refreshed")]
                  ELSE oauth' = [oauth EXCEPT !.pc = "serving", !.refresh_used = kept]
           ELSE oauth' = [oauth EXCEPT !.pc = "serving"]
    /\ UNCHANGED dlVars
    /\ UNCHANGED upVars
    /\ UNCHANGED prVars
    /\ UNCHANGED blVars

\* The server takes request h: requests are numbered in the order they come,
\* and none comes once the graceful shutdown has begun.
Accepts(h) ==
    /\ oauth.pc = "serving"
    /\ oauth.requests[h].pc = "unused"
    /\ \A g \in Requests : g < h => oauth.requests[g].pc # "unused"

\* web_server.rs:102-114: init_auth makes a random CSRF token and a PKCE pair
\* and stores the CSRF token.
init_auth(h) ==
    /\ Accepts(h)
    /\ oauth' = [oauth EXCEPT
           !.issued = @ + 1,
           !.csrf_token = Some(oauth.issued + 1),
           !.requests[h] = [NoRequest EXCEPT !.kind = "init_auth", !.pc = "pkce",
                                             !.csrf = oauth.issued + 1]]
    /\ UNCHANGED dlVars
    /\ UNCHANGED upVars
    /\ UNCHANGED prVars
    /\ UNCHANGED blVars

\* web_server.rs:115-117: init_auth stores the PKCE verifier and redirects.
init_auth_pkce(h) ==
    /\ oauth.requests[h].kind = "init_auth"
    /\ oauth.requests[h].pc = "pkce"
    /\ oauth' = [oauth EXCEPT
           !.pkce_verifier = Some(oauth.requests[h].csrf),
           !.requests[h].pc = "done", !.requests[h].outcome = "redirect"]
    /\ UNCHANGED dlVars
    /\ UNCHANGED upVars
    /\ UNCHANGED prVars
    /\ UNCHANGED blVars

\* web_server.rs:122-125 and drop_control.rs:11-16: callback_auth returns,
\* and the Defer it made sets the shutdown flag.
Returned(o, h, outcome) ==
    [o EXCEPT !.requests[h].pc = "done", !.requests[h].outcome = outcome,
              !.shutdown_flag = TRUE]

\* web_server.rs:128: Option::take on the stored CSRF token.
taken_csrf_left(stored) == stored
taken_csrf(stored) == None

\* web_server.rs:120-155: callback_auth to the check of the code: state 0 is
\* a callback without state or with one init_auth never made.
callback_auth(h, state, has_code) ==
    /\ Accepts(h)
    /\ LET stored_csrf_token == oauth.csrf_token
           o == [oauth EXCEPT
                   !.csrf_token = taken_csrf(stored_csrf_token),
                   !.requests[h] = [NoRequest EXCEPT !.kind = "callback_auth",
                                                     !.state = state]]
       IN  oauth' =
             IF is_none(stored_csrf_token) THEN Returned(o, h, "/auth/failed")
             ELSE IF state # unwrap(stored_csrf_token)
             THEN Returned(o, h, "/auth/infringe")
             ELSE IF ~has_code THEN Returned(o, h, "/auth/failed")
             ELSE [o EXCEPT !.requests[h].pc = "verifier",
                            !.requests[h].csrf = unwrap(stored_csrf_token)]
    /\ UNCHANGED dlVars
    /\ UNCHANGED upVars
    /\ UNCHANGED prVars
    /\ UNCHANGED blVars

\* web_server.rs:157-171: Option::take on the stored PKCE verifier.
callback_verifier(h) ==
    /\ oauth.requests[h].pc = "verifier"
    /\ LET o == [oauth EXCEPT !.pkce_verifier = None]
       IN  oauth' =
             IF is_none(oauth.pkce_verifier) THEN Returned(o, h, "/auth/failed")
             ELSE [o EXCEPT !.requests[h].pc = "exchange",
                            !.requests[h].verifier = unwrap(oauth.pkce_verifier)]
    /\ UNCHANGED dlVars
    /\ UNCHANGED upVars
    /\ UNCHANGED prVars
    /\ UNCHANGED blVars

\* web_server.rs:161-165, 173, 193-196: the token exchange; the provider may
\* refuse it, and refuses a verifier that is not the one of the code's flow.
callback_exchange(h) ==
    /\ oauth.requests[h].pc = "exchange"
    /\ \E ok \in BOOLEAN :
         oauth' =
           IF ok /\ oauth.requests[h].verifier = oauth.requests[h].state
           THEN [oauth EXCEPT !.requests[h].pc = "send"]
           ELSE Returned(oauth, h, "/auth/failed")
    /\ UNCHANGED dlVars
    /\ UNCHANGED upVars
    /\ UNCHANGED prVars
    /\ UNCHANGED blVars

\* web_server.rs:174-191: the Token is sent on the channel; send waits while
\* the channel is full.
callback_send(h) ==
    /\ oauth.requests[h].pc = "send"
    /\ Len(oauth.chan) < 1
    /\ oauth' = Returned(
          [oauth EXCEPT !.chan = Append(@,
              Token(ClientId, RequestedScopes, <<"code of", h>>, None, TRUE))],
          h, "/auth/complete")
    /\ UNCHANGED dlVars
    /\ UNCHANGED upVars
    /\ UNCHANGED prVars
    /\ UNCHANGED blVars

\* web_server.rs:90, 96-100: the shutdown future finds the flag set; the
\* server takes no more requests and waits for the ones it has.
shutdown ==
    /\ oauth.pc = "serving"
    /\ oauth.shutdown_flag
    /\ oauth' = [oauth EXCEPT !.pc = "draining"]
    /\ UNCHANGED dlVars
    /\ UNCHANGED upVars
    /\ UNCHANGED prVars
    /\ UNCHANGED blVars

\* oauth2.rs:253-262: spawn_webserver returns once every request is done; the
\* Sender is dropped with the server and recv gives the Token in the channel,
\* which is saved and returned, or None.
receive_token ==
    /\ oauth.pc = "draining"
    /\ \A h \in Requests : oauth.requests[h].pc \in {"unused", "done"}
    /\ oauth' =
         IF oauth.chan # <<>>
         THEN [oauth EXCEPT !.pc = "returned", !.via = "server",
                            !.stored = Some(Head(oauth.chan)),
                            !.chan = Tail(@),
                            !.result = Some(Head(oauth.chan).access_token)]
         ELSE [oauth EXCEPT !.pc = "returned", !.via = "server"]
    /\ UNCHANGED dlVars
    /\ UNCHANGED upVars
    /\ UNCHANGED prVars
    /\ UNCHANGED blVars

\* ------------------------------------------------------------ idle halves

DownloadIdle ==
    /\ obj = NoObject
    /\ srcData = <<>>
    /\ srcFile = [handle |-> None, holder |-> None, opens |-> 0]
    /\ dlResult = "none"
    /\ tasks = [i \in TaskIds |-> NoTask]
    /\ chan = <<>>
    /\ rcvd = <<>>
    /\ rx = "open"
    /\ upResult = "none"

ParserIdle ==
    /\ input = <<>>
    /\ parsed = None


BuilderIdle ==
    /\ world = NoWorld
    /\ res = NoResolve
    /\ bld = NoBuilder

UploadIdle ==
    /\ dst = NoObject
    /\ B = <<>>
    /\ dstDisk = None
    /\ dstFile = [handle |-> None, holder |-> None, creates |-> 0, writes |-> <<>>]
    /\ calls = {}
    /\ resumable_upload_url = [url |-> None, holder |-> None]
    /\ drive = [folders |-> <<>>, sessions |-> <<>>, puts |-> <<>>, aborts |-> <<>>]
    /\ s3 = <<>>

\* ------------------------------------------------------------ Spec: download
\* A source object as a builder leaves it: file_size is the length of the
\* stream when it exists, chunk_size > 0, one client per unit of concurrency.
Init ==
    /\ \E b \in Backends, n \in 0..MaxFileSize, exists \in BOOLEAN,
          cs \in 1..MaxChunkSize, conc \in 1..MaxConcurrency :
        /\ obj = FileSystemObject(b, IF exists THEN Some(n) ELSE None, cs, conc, None, <<>>)
        /\ srcData = IF exists THEN Content(n) ELSE <<>>
    /\ srcFile = [handle |-> None, holder |-> None, opens |-> 0]
    /\ dlResult = "none"
    /\ tasks = [i \in TaskIds |-> NoTask]
    /\ chan = <<>>
    /\ rcvd = <<>>
    /\ rx = "open"
    /\ upResult = "none"
    /\ UploadIdle
    /\ ParserIdle
    /\ BuilderIdle
    /\ OAuthIdle

Next ==
    \/ Download
    \/ \E i \in TaskIds : RemotePick(i)
    \/ \E i \in TaskIds : RemoteRead(i)
    \/ \E i \in TaskIds : LocalLock(i)
    \/ \E i \in TaskIds : LocalRead(i)
    \/ \E i \in TaskIds : Send(i)
    \/ \E i \in TaskIds : SendFails(i)
    \/ Recv
    \/ RecvClosed
    \/ DropReceiver

Spec == Init /\ [][Next]_vars

\* ------------------------------------------------------------ UploadSpec
\* The shapes a Drive builder leaves (file_system_builder/google_drive.rs
\* 96-188): an existing file, an existing folder, a path whose tail does not
\* exist (the residual ends with the file name), and the root.
\* google_drive.rs:108-131, 163-186: the object built for a path of which the
\* first `explored` names exist, size being the size of the deepest one found.
DriveShape(path_names, explored, size) ==
    [file_size |-> size, name |-> get_upload_filename(JoinPath(path_names)),
     residual |-> remain_path(path_names, explored)]

DriveShapes ==
    { DriveShape(<< <<"file.bin">> >>, 1, Some(Len(OldContent))),
      DriveShape(<< <<"dir">> >>, 1, None),
      DriveShape(<< <<"file.bin">> >>, 0, None),
      DriveShape(<< <<"new_dir">>, <<"file.bin">> >>, 0, None),
      DriveShape(<< <<"new_dir">>, <<"new_sub">>, <<"file.bin">> >>, 0, None),
      DriveShape(<<>>, 0, None) }

\* The bytes at a Local destination before any chunk is applied.
InitialDisk(o) ==
    IF o.backend = "Local" /\ is_some(o.file_size) THEN Some(OldContent) ELSE None

UploadInit ==
    /\ \E b \in Backends, exists \in BOOLEAN, cs \in 1..MaxChunkSize,
          shape \in DriveShapes :
        dst = IF b = "GoogleDrive"
              THEN FileSystemObject(b, shape.file_size, cs, 1, shape.name, shape.residual)
              ELSE FileSystemObject(b, IF exists THEN Some(Len(OldContent)) ELSE None,
                                    cs, 1, None, <<>>)
    /\ \E n \in 0..MaxUploadSize : B = Content(n)
    /\ dstDisk = InitialDisk(dst)
    /\ dstFile = [handle |-> None, holder |-> None, creates |-> 0, writes |-> <<>>]
    /\ calls = {}
    /\ resumable_upload_url = [url |-> None, holder |-> None]
    /\ drive = [folders |-> <<>>, sessions |-> <<>>, puts |-> <<>>, aborts |-> <<>>]
    /\ s3 = <<>>
    /\ DownloadIdle
    /\ ParserIdle
    /\ BuilderIdle
    /\ OAuthIdle

UploadNext ==
    \/ \E c \in UploadInputs : partial_upload(c)
    \/ \E k \in calls : LocalUploadLock(k)
    \/ \E k \in calls : LocalUploadWrite(k)
    \/ \E k \in calls : DriveLock(k)
    \/ \E k \in calls : DriveCreateDir(k)
    \/ \E k \in calls : DriveInit(k)

UploadSpec == UploadInit /\ [][UploadNext]_vars

\* ------------------------------------------------------------ RoundTripSpec
\* file_system_builder/mod.rs:173-220: build() of the Local builder stats the
\* path: file_size is the length of the file there, None when there is none.
build ==
    /\ obj = NoObject
    /\ dst.backend = "Local"
    /\ \A k \in calls : k.pc = "done"
    /\ \E cs \in 1..MaxChunkSize, conc \in 1..MaxConcurrency :
        obj' = FileSystemObject("Local",
                   IF is_some(dstDisk) THEN Some(Len(unwrap(dstDisk))) ELSE None,
                   cs, conc, None, <<>>)
    /\ srcData' = IF is_some(dstDisk) THEN unwrap(dstDisk) ELSE <<>>
    /\ UNCHANGED <<srcFile, dlResult, tasks, chan, rcvd>>
    /\ UNCHANGED <<rx, upResult>>
    /\ UNCHANGED upVars
    /\ UNCHANGED prVars
    /\ UNCHANGED oaVars
    /\ UNCHANGED blVars

\* The chunks of B are written to a Local path that does not exist; the path
\* is then built as a source and downloaded.
RoundTripInit ==
    /\ UploadInit
    /\ dst.backend = "Local"
    /\ is_none(dst.file_size)

RoundTripNext ==
    \/ (obj = NoObject /\ \E c \in PlanChunks(B, chunk_size(dst)) : partial_upload(c))
    \/ \E k \in calls : LocalUploadLock(k)
    \/ \E k \in calls : LocalUploadWrite(k)
    \/ build
    \/ Download
    \/ \E i \in TaskIds : LocalLock(i)
    \/ \E i \in TaskIds : LocalRead(i)
    \/ \E i \in TaskIds : Send(i)
    \/ Recv

RoundTripSpec == RoundTripInit /\ [][RoundTripNext]_vars

\* ------------------------------------------------------------ TransferSpec
\* A Local source that exists is transferred to a Local path that does not:
\* download feeds the channel while upload, given the Receiver, runs beside it.
TransferInit ==
    /\ \E n \in 0..MaxFileSize, cs \in 1..MaxChunkSize, conc \in 1..MaxConcurrency :
        /\ obj = FileSystemObject("Local", Some(n), cs, conc, None, <<>>)
        /\ srcData = Content(n)
        /\ dst = FileSystemObject("Local", None, cs, conc, None, <<>>)
    /\ srcFile = [handle |-> None, holder |-> None, opens |-> 0]
    /\ dlResult = "none"
    /\ tasks = [i \in TaskIds |-> NoTask]
    /\ chan = <<>>
    /\ rcvd = <<>>
    /\ rx = "open"
    /\ upResult = "none"
    /\ B = <<>>
    /\ dstDisk = None
    /\ dstFile = [handle |-> None, holder |-> None, creates |-> 0, writes |-> <<>>]
    /\ calls = {}
    /\ resumable_upload_url = [url |-> None, holder |-> None]
    /\ drive = [folders |-> <<>>, sessions |-> <<>>, puts |-> <<>>, aborts |-> <<>>]
    /\ s3 = <<>>
    /\ ParserIdle
    /\ BuilderIdle
    /\ OAuthIdle

TransferNext ==
    \/ Download
    \/ upload
    \/ \E i \in TaskIds : LocalLock(i)
    \/ \E i \in TaskIds : LocalRead(i)
    \/ \E i \in TaskIds : Send(i)
    \/ \E i \in TaskIds : SendFails(i)

TransferSpec == TransferInit /\ [][TransferNext]_vars

\* ------------------------------------------------------------ ParserSpec
ParserInit ==
    /\ input \in Inputs
    /\ parsed = None
    /\ DownloadIdle
    /\ UploadIdle
    /\ BuilderIdle
    /\ OAuthIdle

ParserNext == Parse

ParserSpec == ParserInit /\ [][ParserNext]_vars

\* ------------------------------------------------------------ ResolverSpec
ResolverInit ==
    /\ \E t \in DriveTrees : world = [NoWorld EXCEPT !.drive = t]
    /\ res = NoResolve
    /\ bld = NoBuilder
    /\ DownloadIdle
    /\ UploadIdle
    /\ ParserIdle
    /\ OAuthIdle

ResolverNext ==
    \/ \E ids \in ParentIdSets, p \in ResolverPaths : resolve_path_to_existing_depth(ids, p)
    \/ ResolveQuery

ResolverSpec == ResolverInit /\ [][ResolverNext]_vars

\* ------------------------------------------------------------ BuilderSpec
\* A builder of one backend is configured and built, the object's chunk size
\* is set again, and the object is downloaded.
BuilderInit ==
    /\ \E b \in Backends :
        /\ bld = FileSystemBuilder_new(b, MaxConcurrency)
        /\ world \in BuilderWorlds(b)
    /\ res = NoResolve
    /\ DownloadIdle
    /\ UploadIdle
    /\ ParserIdle
    /\ OAuthIdle

BuilderNext ==
    \/ \E path \in BuilderInputs : set_file_path(path)
    \/ \E n \in 0..MaxChunkSize : builder_chunk_size(n)
    \/ build_local
    \/ build_s3
    \/ build_drive
    \/ ResolveQuery
    \/ build_drive_finish
    \/ \E n \in 0..MaxChunkSize : set_chunk_size(n)
    \/ Download

BuilderSpec == BuilderInit /\ [][BuilderNext]_vars

\* ------------------------------------------------------------ OAuthSpec
\* get_access_token is called with some content of the token store; when it
\* starts the web server, init_auth and callback_auth requests come in any
\* number up to MaxRequests and in any interleaving.
OAuthInit ==
    /\ \E stored \in StoredTokens :
         oauth = [NoOAuth EXCEPT !.pc = "called", !.stored = stored]
    /\ DownloadIdle
    /\ UploadIdle
    /\ ParserIdle
    /\ BuilderIdle

OAuthNext ==
    \/ get_access_token
    \/ \E h \in Requests : init_auth(h)
    \/ \E h \in Requests : init_auth_pkce(h)
    \/ \E h \in Requests, state \in 0..oauth.issued, has_code \in BOOLEAN :
          callback_auth(h, state, has_code)
    \/ \E h \in Requests : callback_verifier(h)
    \/ \E h \in Requests : callback_exchange(h)
    \/ \E h \in Requests : callback_send(h)
    \/ shutdown
    \/ receive_token

OAuthSpec == OAuthInit /\ [][OAuthNext]_vars

\* ------------------------------------------------------------ download claims
\* The offsets download spawned a task for, and those whose task has computed
\* its record (offset, start, end, is_last).
Spawned == {i \in TaskIds : tasks[i].pc # "unspawned"}
Records == {i \in Spawned : tasks[i].pc # "spawned"}
AllPlanned == dlResult = "Ok" /\ Records = Spawned
RecLen(i) == tasks[i].end - tasks[i].start + 1

PlanPartitions(fs) ==
    /\ \A p \in 0..(fs - 1) :
         Cardinality({i \in Records : tasks[i].start <= p /\ p <= tasks[i].end}) = 1
    /\ \A i \in Records : 0 <= tasks[i].start /\ tasks[i].start <= tasks[i].end
                           /\ tasks[i].end <= fs - 1
    /\ \A i \in Records : i + 1 \in Records => tasks[i + 1].start = tasks[i].end + 1
PlanOneLast == Cardinality({i \in Records : tasks[i].is_last}) = 1
PlanFullChunks ==
    \A i \in Records : ~tasks[i].is_last => RecLen(i) = chunk_size(obj)

\* C1 (as claimed): for every file_size >= 0 and chunk_size >= 1 the records
\* partition [0, file_size), exactly one record is last and every non-last
\* record has length chunk_size.
C1_Original ==
    AllPlanned =>
        /\ PlanPartitions(unwrap(file_size(obj)))
        /\ PlanOneLast
        /\ PlanFullChunks

\* C1 (amended): for file_size >= 1 the records partition [0, file_size)
\* contiguously without overlap, exactly one record is last and every non-last
\* record has length chunk_size; for file_size = 0 no record is computed.
C1_ChunkPlan ==
    AllPlanned =>
        IF unwrap(file_size(obj)) >= 1
        THEN /\ PlanPartitions(unwrap(file_size(obj)))
             /\ PlanOneLast
             /\ PlanFullChunks
        ELSE Records = {}

\* C1 witness: a plan of several chunks whose last chunk is short.
C1_Witness ==
    /\ AllPlanned
    /\ Cardinality(Records) >= 2
    /\ \E i \in Records : tasks[i].is_last /\ RecLen(i) < chunk_size(obj)

Terminated == {"sent", "panicked", "failed"}
Quiescent ==
    /\ dlResult = "Ok"
    /\ \A i \in Spawned : tasks[i].pc \in Terminated
    /\ chan = <<>>
AllReadsSucceeded == \A i \in Spawned : tasks[i].pc # "failed"
Carried(i) == {k \in 1..Len(rcvd) : rcvd[k].offset = i}

\* C4: when every ranged read succeeds and the receiver keeps receiving, the
\* channel ends up having carried exactly one ChunkData per offset in [0, N),
\* none for another offset, with is_last only on offset N - 1.
C4_EveryChunkOnce ==
    (Quiescent /\ AllReadsSucceeded /\ rx = "open") =>
        /\ \A i \in 0..(last_offset(obj) - 1) : Cardinality(Carried(i)) = 1
        /\ \A k \in 1..Len(rcvd) : rcvd[k].offset < last_offset(obj)
        /\ \A k \in 1..Len(rcvd) :
             rcvd[k].is_last <=> rcvd[k].offset = last_offset(obj) - 1

\* C5: the S3 and Drive task of chunk i picks clients[i mod concurrency]; the
\* index is within the pool and the pick never faults.
C5_ClientSelection ==
    obj.backend \in Remote =>
        \A i \in Records :
            /\ tasks[i].err \notin {"RemainderByZero", "IndexOutOfBounds"}
            /\ tasks[i].client = Some(i % concurrency(obj))

\* C6: every ChunkData partial_download produces has len(bytes) <= chunk_size,
\* and len(bytes) < chunk_size only when is_last.
C6_ChunkDataInvariant ==
    \A i \in TaskIds :
        is_some(tasks[i].chunk) =>
            LET c == unwrap(tasks[i].chunk)
            IN  /\ Len(c.data) <= chunk_size(obj)
                /\ (Len(c.data) < chunk_size(obj) => c.is_last)

\* C7: download on an object whose file_size is None fails with
\* NotExistFileError, spawns no task and sends no ChunkData.
C7_DownloadPrecondition ==
    (is_none(file_size(obj)) /\ dlResult # "none") =>
        /\ dlResult = "NotExistFileError"
        /\ Spawned = {}
        /\ chan = <<>>
        /\ rcvd = <<>>

\* C7 witness: download has been called on an object without file_size.
C7_Witness == is_none(file_size(obj)) /\ dlResult = "NotExistFileError"

\* C11: when the ranged read of any chunk task has failed, download has
\* returned an error and not Ok.
C11_FirstErrorPropagation ==
    (\E i \in Spawned : tasks[i].pc = "failed") => dlResult \notin {"Ok", "none"}

\* C12: a task whose send fails because the receiver was dropped exits
\* without panicking.
C12_ReceiverDropped ==
    \A i \in Spawned : ~(tasks[i].pc = "panicked" /\ tasks[i].err = "SendError")

\* The chunk tasks whose ranged read is in flight: a remote task between its
\* client pick and the response, a Local task holding the file mutex.
InFlight == {i \in Spawned : tasks[i].pc \in {"reading", "locked"}}

\* C13: at every moment the number of chunk tasks with a ranged read in flight
\* is at most the object's concurrency, however many chunks the plan has.
C13_ConcurrencyCap == Cardinality(InFlight) <= concurrency(obj)

\* C13 witness: a plan of more chunks than concurrency + 1, every task past
\* its client pick, and as many reads in flight as the concurrency allows.
C13_Witness ==
    /\ AllPlanned
    /\ last_offset(obj) > concurrency(obj) + 1
    /\ concurrency(obj) >= 2
    /\ Cardinality(InFlight) = concurrency(obj)

\* C14: a Local to Local transfer neither panics nor stops short: once
\* download's tasks and upload have ended, upload returned Ok and the bytes at
\* the destination are the bytes of the source.
C14_TransferCompletes ==
    /\ upResult # "panic"
    /\ \A i \in Spawned : tasks[i].pc # "panicked"
    /\ (/\ dlResult = "Ok"
        /\ \A i \in Spawned : tasks[i].pc \in Terminated
        /\ upResult # "none")
          => (upResult = "Ok" /\ dstDisk = Some(srcData))

\* ------------------------------------------------------------ upload claims
\* Every chunk of the plan of B has been applied once to a Local path that did
\* not exist, nothing else was applied, and every call returned Ok.
PlanApplied ==
    /\ dst.backend = "Local"
    /\ is_none(dst.file_size)
    /\ {k.chunk : k \in calls} = PlanChunks(B, chunk_size(dst))
    /\ \A k \in calls : k.result = "Ok"

\* The bytes of the received chunks, concatenated by offset_index.
DataAt(r, i) ==
    IF \E k \in 1..Len(r) : r[k].offset = i
    THEN r[CHOOSE k \in 1..Len(r) : r[k].offset = i].data
    ELSE <<>>
RECURSIVE ConcatFrom(_, _)
ConcatFrom(r, i) ==
    IF i >= MaxFileSize THEN <<>> ELSE DataAt(r, i) \o ConcatFrom(r, i + 1)
ConcatByOffset(r) == ConcatFrom(r, 0)

\* C2: writing all chunks of B through the Local uploader to a path that does
\* not exist and reading the path through the Local downloader yields chunks
\* whose concatenation by offset_index is B.
C2_LocalRoundTrip ==
    (PlanApplied /\ Quiescent /\ AllReadsSucceeded) => ConcatByOffset(rcvd) = B

\* The file the chunks of the plan leave when applied in ascending
\* offset_index order, one call after the other.
RECURSIVE ApplyAscending(_, _, _, _)
ApplyAscending(disk, bytes, cs, i) ==
    IF i >= last_offset(PlanObject(bytes, cs)) THEN disk
    ELSE LET c == PlanChunk(bytes, cs, i)
             d == IF is_none(disk) THEN <<>> ELSE unwrap(disk)
         IN  ApplyAscending(Some(WriteAt(d, c.offset * cs, c.data)), bytes, cs, i + 1)

\* C3: applied in any order and under any interleaving of concurrent
\* partial_upload calls, the chunks of one plan leave the same file bytes as
\* applied in ascending offset_index order.
C3_OrderingIndependence ==
    PlanApplied => dstDisk = ApplyAscending(None, B, chunk_size(dst), 0)

\* C3 witness: a plan of three chunks has been applied in descending order.
C3_Witness ==
    /\ PlanApplied
    /\ dstFile.writes = <<2, 1, 0>>
    /\ dstDisk = Some(B)

Exists == is_some(dst.file_size)

\* C8 (as claimed): a chunk applied to a destination that exists fails with
\* InvalidArgumentError on Local and is not refused for that reason on S3 and
\* Drive.
C8_Original ==
    Exists =>
        \A k \in calls :
            /\ dst.backend = "Local" =>
                 k.result = "InvalidArgumentError" /\ k.why = "already exist"
            /\ dst.backend \in Remote => k.why # "already exist"

\* C8 (amended): a chunk that passes the per-chunk length check and is applied
\* to a destination that exists fails with InvalidArgumentError on Local and is
\* not refused for that reason on S3 and Drive; a chunk that fails the length
\* check fails with UnknownError on every backend.
C8_OverwritePolicy ==
    Exists =>
        \A k \in calls :
            /\ (dst.backend = "Local" /\ (k.chunk.is_last \/ Len(k.chunk.data) = chunk_size(dst)))
                 => k.result = "InvalidArgumentError" /\ k.why = "already exist"
            /\ (~k.chunk.is_last /\ Len(k.chunk.data) # chunk_size(dst))
                 => k.result = "UnknownError"
            /\ dst.backend \in Remote => k.why # "already exist"

\* C8 witness: a well-formed chunk was refused by a Local destination that
\* exists.
C8_Witness ==
    /\ Exists /\ dst.backend = "Local"
    /\ \E k \in calls : k.chunk \in PlanChunks(B, chunk_size(dst))
                        /\ k.result = "InvalidArgumentError"

\* C9: after any number of chunks refused because the Local destination
\* exists, the file slot is None, the file was never created and its bytes
\* are what they were.
C9_RefusedLeavesTarget ==
    (dst.backend = "Local" /\ Exists) =>
        /\ is_none(dstFile.handle)
        /\ dstFile.creates = 0
        /\ dstDisk = Some(OldContent)

\* C9 witness: two chunks have been refused by a Local destination that exists.
C9_Witness ==
    /\ dst.backend = "Local" /\ Exists
    /\ Cardinality({k \in calls : k.why = "already exist"}) >= 2

\* The last name of a path.
Last(names) == names[Len(names)]

\* C15: for a Drive path whose last k >= 1 names do not exist, an upload that
\* went through without a failed request has created exactly k - 1 folders,
\* named by the first k - 1 missing names, and one file named by the last.
C15_ResidualFolders ==
    (/\ dst.backend = "GoogleDrive"
     /\ dst.not_exist_file_paths # <<>>
     /\ drive.sessions # <<>>
     /\ \A k \in calls : k.result # "GoogleDriveError")
      => LET k == Len(dst.not_exist_file_paths)
         IN  /\ Len(drive.folders) = k - 1
             /\ \A n \in 1..Len(drive.folders) :
                    drive.folders[n].name = dst.not_exist_file_paths[n]
             /\ drive.sessions[1].name = Last(dst.not_exist_file_paths)

\* C16: for one Drive object at most one resumable-upload initiation succeeds,
\* and the URL it stored is never replaced or cleared.
C16_OneResumableSession ==
    /\ Len(drive.sessions) <= 1
    /\ is_some(resumable_upload_url.url) <=> Len(drive.sessions) = 1
    /\ is_some(resumable_upload_url.url)
         => resumable_upload_url.url = Some(<<"session", 1>>)

\* C16 witness: the session was initiated by one call and two more calls
\* returned Ok on the URL it left.
C16_Witness ==
    /\ dst.backend = "GoogleDrive"
    /\ is_some(resumable_upload_url.url)
    /\ Cardinality({k \in calls : k.result = "Ok"}) >= 3

\* C17: whenever partial_upload has returned Ok for a chunk on Drive, a PUT of
\* bytes start-end with start = offset_index * chunk_size and
\* end = start + len - 1 has been issued to the resumable URL.
C17_DrivePerChunkWrite ==
    \A k \in calls :
        (dst.backend = "GoogleDrive" /\ k.result = "Ok")
          => \E n \in 1..Len(drive.puts) :
                /\ drive.puts[n].start = k.chunk.offset * chunk_size(dst)
                /\ drive.puts[n].end =
                       k.chunk.offset * chunk_size(dst) + Len(k.chunk.data) - 1

S3Requests(kind) == {n \in 1..Len(s3) : s3[n].kind = kind}

\* C18: on S3, once a chunk has been accepted CreateMultipartUpload has been
\* issued exactly once, the chunk of offset_index i has been uploaded as part
\* i + 1, and once every chunk of the plan is accepted
\* CompleteMultipartUpload has been issued exactly once.
C18_S3MultipartOrdering ==
    (dst.backend = "AmazonS3" /\ \E k \in calls : k.result = "Ok") =>
        /\ Cardinality(S3Requests("CreateMultipartUpload")) = 1
        /\ \A k \in calls : k.result = "Ok" =>
               \E n \in S3Requests("UploadPart") : s3[n].part = k.chunk.offset + 1
        /\ (\A c \in PlanChunks(B, chunk_size(dst)) :
               \E k \in calls : k.chunk = c /\ k.result = "Ok")
             => Cardinality(S3Requests("CompleteMultipartUpload")) = 1

ErrorKinds == {"UnknownError", "InvalidArgumentError", "GoogleDriveError",
               "FileOperationError"}

\* C19: once a Drive resumable URL exists, a step in which partial_upload
\* surfaces an error leaves an abort of the session issued.
C19_AbortOnError ==
    [][(/\ is_some(resumable_upload_url.url)
        /\ \E k \in calls' \ calls : k.result \in ErrorKinds)
          => drive'.aborts # <<>>]_vars

DestinationUntouched ==
    /\ dstDisk = InitialDisk(dst)
    /\ dstFile = [handle |-> None, holder |-> None, creates |-> 0, writes |-> <<>>]
    /\ resumable_upload_url = [url |-> None, holder |-> None]
    /\ drive = [folders |-> <<>>, sessions |-> <<>>, puts |-> <<>>, aborts |-> <<>>]
    /\ s3 = <<>>

\* C10: partial_upload rejects with UnknownError every chunk that is not last
\* and whose length differs from chunk_size; a rejected chunk never holds a
\* mutex, as long as only such chunks were applied no destination state has
\* changed, and every write to the file is that of a call that returned Ok; a
\* last chunk is never rejected by the length check, whatever its length.
C10_LengthCheck ==
    /\ \A k \in calls :
         (~k.chunk.is_last /\ Len(k.chunk.data) # chunk_size(dst))
            => /\ k.pc = "done" /\ k.result = "UnknownError"
               /\ dstFile.holder # Some(k.chunk)
               /\ resumable_upload_url.holder # Some(k.chunk)
    /\ (\A k \in calls : k.result = "UnknownError") => DestinationUntouched
    /\ Len(dstFile.writes) = Cardinality({k \in calls :
                                 dst.backend = "Local" /\ k.result = "Ok"})
    /\ \A k \in calls : k.chunk.is_last => k.result # "UnknownError"

\* C10 witness: a short chunk that is not last was rejected, and a last chunk
\* longer than chunk_size was written.
C10_Witness ==
    /\ \E k \in calls : ~k.chunk.is_last /\ Len(k.chunk.data) < chunk_size(dst)
                        /\ k.result = "UnknownError"
    /\ \E k \in calls : k.chunk.is_last /\ Len(k.chunk.data) > chunk_size(dst)
                        /\ k.result = "Ok" /\ dst.backend = "Local"

\* ------------------------------------------------------------ parser claims
\* The text of an input behind its prefix, and whether one of its segments
\* is "." or "..".
Remainder(in) == SubSeq(in, 4, Len(in))
HasDotSegment(str) ==
    \E i \in 1..Len(str), j \in 1..Len(str) :
        /\ i <= j
        /\ SubSeq(str, i, j) \in {<<".">>, <<".", ".">>}
        /\ (i = 1 \/ str[i - 1] = "/")
        /\ (j = Len(str) \/ str[j + 1] = "/")
WellFormedInput(in) ==
    /\ \E sc \in {"file:", "s3:", "gd:", "gds:"} : starts_with(in, Prefix(sc))
    /\ ~contains(Remainder(in), <<"/", "/">>)
    /\ ~HasDotSegment(Remainder(in))
    /\ in[1] \in {"s3:", "gds:"} => \E i \in 1..Len(Remainder(in)) : Remainder(in)[i] # "/"

\* C20: file_system_prefix_parser returns Ok exactly for the inputs that start
\* with file://, s3://, gd:// or gds://, have no "//" in the remainder, no "."
\* or ".." segment and, for s3:// and gds://, a namespace that is not empty;
\* for every other input it returns InvalidArgumentError and never panics.
C20_ParserTotality ==
    is_some(parsed) =>
        unwrap(parsed).kind = IF WellFormedInput(input) THEN "Ok"
                              ELSE "InvalidArgumentError"

\* C21: every Ok result has a path without "//", without a leading and
\* without a trailing "/" (a remainder of "" or "/" gives the empty path), no
\* namespace for file:// and gd://, and for s3:// and gds:// a namespace
\* that is not empty and holds no "/".
C21_WellFormedResult ==
    (is_some(parsed) /\ unwrap(parsed).kind = "Ok") =>
        LET r == unwrap(parsed)
        IN  /\ ~contains(r.path, <<"/", "/">>)
            /\ ~starts_with(r.path, <<"/">>)
            /\ (r.path # <<>> => r.path[Len(r.path)] # "/")
            /\ (Remainder(input) \in {<<>>, <<"/">>} => r.path = <<>>)
            /\ (r.prefix \in {Prefix("file:"), Prefix("gd:")} => is_none(r.namespace))
            /\ (r.prefix \in {Prefix("s3:"), Prefix("gds:")} =>
                   /\ is_some(r.namespace)
                   /\ unwrap(r.namespace) # <<>>
                   /\ ~contains(unwrap(r.namespace), <<"/">>))

\* C22: for each of the four schemes an input whose remainder holds "//"
\* anywhere is rejected with InvalidArgumentError.
C22_DoubleSlashGuard ==
    (/\ is_some(parsed)
     /\ \E sc \in {"file:", "s3:", "gd:", "gds:"} : starts_with(input, Prefix(sc))
     /\ contains(Remainder(input), <<"/", "/">>))
      => unwrap(parsed).kind = "InvalidArgumentError"

\* ------------------------------------------------------------ resolver claims
ResolveDone == res.pc = "done" /\ res.result.why # "metacharacter"
                               /\ res.result.kind # "ConnectionError"

RECURSIVE Level(_, _)
Level(names, j) ==
    IF j = 0 THEN {RootId}
    ELSE {f.id : f \in {g \in world.drive :
                            g.name = names[j] /\ g.parent \in Level(names, j - 1)}}
ExistingDepth(names) ==
    CHOOSE k \in 0..Len(names) :
        /\ Level(names, k) # {}
        /\ \A j \in (k + 1)..Len(names) : Level(names, j) = {}

\* C24: for a path of names s1..sn whose longest existing prefix s1..sk leads
\* to one file, the resolver returns that file as anchor (the root for k = 0)
\* and [s(k+1), ..., sn] as residual, explored + len(residual) = n, and it
\* asks for no name after the first one it did not find.
C24_ResidualExtraction ==
    (/\ ResolveDone
     /\ res.parent_ids \in {<<>>, <<RootId>>}
     /\ Cardinality(Level(res.path_names, ExistingDepth(res.path_names))) = 1)
      => LET n == Len(res.path_names)
             k == ExistingDepth(res.path_names)
         IN  /\ res.result.kind = "Ok"
             /\ res.explored = k
             /\ res.result.residual = SubSeq(res.path_names, k + 1, n)
             /\ res.explored + Len(res.result.residual) = n
             /\ IF k = 0
                THEN is_none(res.result.anchor) \/ unwrap(res.result.anchor).id = RootId
                ELSE /\ is_some(res.result.anchor)
                     /\ unwrap(res.result.anchor).id \in Level(res.path_names, k)
             /\ Len(res.queries) = min(k + 1, n)

\* ------------------------------------------------------------ resolver claims
\* The walk is over and the query for the first name found nothing.
FirstSegmentMissed ==
    /\ ResolveDone
    /\ res.path_names # <<>>
    /\ res.explored = 0

\* C32 as stated: when the first segment has no match the resolver returns
\* anchor = None and every segment as residual, whatever the initial parent
\* ids are (none, one Shared Drive id, several).
C32_Original ==
    FirstSegmentMissed =>
        /\ res.result.kind = "Ok"
        /\ is_none(res.result.anchor)
        /\ res.result.residual = res.path_names

\* C32 amended: when the first segment has no match, the resolver returns
\* every segment as residual with anchor = None for no parent id and with the
\* record of the Shared Drive (its id, no size) for one parent id; for several
\* parent ids it fails with InvalidArgumentError for ambiguity.
C32_FirstSegmentMiss ==
    FirstSegmentMissed =>
        IF Len(res.parent_ids) >= 2
        THEN /\ res.result.kind = "InvalidArgumentError"
             /\ res.result.why = "ambiguous"
             /\ is_none(res.result.anchor)
        ELSE /\ res.result.kind = "Ok"
             /\ res.result.residual = res.path_names
             /\ Len(res.queries) = 1
             /\ IF res.parent_ids = <<>>
                THEN is_none(res.result.anchor)
                ELSE res.result.anchor
                       = Some(DriveFile(res.parent_ids[1], "", "", None))

\* C32 witness: a path of two names whose first name is not in the one
\* Shared Drive asked.
C32_Witness ==
    /\ FirstSegmentMissed
    /\ res.parent_ids = <<RootId>>
    /\ Len(res.path_names) = 2
    /\ is_some(res.result.anchor)
    /\ Len(res.result.residual) = 2

\* C33: whenever a segment of the path is "." or "..", at whatever position,
\* the resolver fails with InvalidArgumentError and has issued no Drive query.
C33_DotSegmentsRejected ==
    (res.pc # "idle" /\ HasDotSegment(res.path)) =>
        /\ res.pc = "done"
        /\ res.result.kind = "InvalidArgumentError"
        /\ res.result.why = "metacharacter"
        /\ res.queries = <<>>

\* An answer to a name before the last one resolved held several files.
IntermediateAmbiguity ==
    \E j \in 2..Len(res.queries) : Cardinality(res.queries[j].parents) >= 2

\* C34: the candidates of an intermediate segment may be several: when the
\* deepest segment resolved has exactly one candidate the resolver succeeds
\* with it as anchor, and it fails as ambiguous exactly when the candidates at
\* the deepest depth resolved are two or more.  Within one Shared Drive the
\* candidates are the files the names lead to from its root.
C34_IntermediateAmbiguityTolerated ==
    ResolveDone =>
        /\ (res.explored >= 1 /\ Cardinality(res.parent_infos) = 1)
              => /\ res.result.kind = "Ok"
                 /\ res.result.anchor = Some(CHOOSE f \in res.parent_infos : TRUE)
        /\ (res.result.why = "ambiguous") <=> (Cardinality(res.parent_infos) >= 2)
        /\ res.parent_ids = <<RootId>> =>
              LET k == ExistingDepth(res.path_names)
              IN  /\ res.explored = k
                  /\ k >= 1 => {f.id : f \in res.parent_infos}
                                  = Level(res.path_names, k)

\* C34 witness: the first name has two folders, the second name exactly one
\* file below them, and that file is the anchor.
C34_Witness ==
    /\ ResolveDone
    /\ IntermediateAmbiguity
    /\ res.explored = 2
    /\ res.result.kind = "Ok"
    /\ is_some(res.result.anchor)
    /\ is_some(unwrap(res.result.anchor).size)

\* ------------------------------------------------------------ Drive upload claims
\* C31: in every upload to one Drive object, also when a folder-create or a
\* session-init request fails and a later chunk goes through the
\* initialisation again, the folder of each residual segment is created at
\* most once: the folder-create requests that succeeded are never more than
\* the residual segments, and no two of them made the same folder.
C31_ResidualFoldersOnce ==
    dst.backend = "GoogleDrive" =>
        /\ Len(drive.folders) <= Len(dst.not_exist_file_paths)
        /\ \A m, n \in 1..Len(drive.folders) :
               (drive.folders[m].name = drive.folders[n].name
                   /\ drive.folders[m].parent = drive.folders[n].parent) => m = n

\* C36: the parent id sent with the resumable-upload initiation is the
\* anchor only when the anchor is a folder or the root, and else the id of
\* the folder created for the last residual segment; it is never the id of an
\* existing file that is no folder, also when the whole destination path
\* exists as a file.
C36_UploadParentIsFolder ==
    dst.backend = "GoogleDrive" =>
        \A n \in 1..Len(drive.sessions) :
            LET parent == drive.sessions[n].parent
            IN  \/ parent = AnchorId /\ is_none(dst.file_size)
                \/ \E m \in 1..Len(drive.folders) :
                      /\ parent = FolderId(m)
                      /\ drive.folders[m].name = Last(dst.not_exist_file_paths)

\* ------------------------------------------------------------ Local read claims
\* The ranged read of task i has run (the file was opened and the channel
\* has not refused the chunk).
LocalReadDone(i) ==
    /\ tasks[i].pc \in {"sending", "sent", "panicked", "failed"}
    /\ tasks[i].err \notin {"ConnectionError", "SendError"}

\* C28: for every chunk index i of a Local source, partial_download reads
\* from start = i * chunk_size and returns exactly end - start + 1 bytes, the
\* bytes of the inclusive range [start, end], and does not fault on the last
\* chunk.
C28_LocalRangedReadLength ==
    obj.backend = "Local" =>
        \A i \in TaskIds :
            LocalReadDone(i) =>
                /\ tasks[i].pc \in {"sending", "sent"}
                /\ tasks[i].start = i * chunk_size(obj)
                /\ unwrap(tasks[i].chunk).data
                     = SubSeq(srcData, tasks[i].start + 1, tasks[i].end + 1)
                /\ Len(unwrap(tasks[i].chunk).data)
                     = tasks[i].end - tasks[i].start + 1

\* C29: download does not return before every task it spawned has ended;
\* when it has returned Ok every one of the N chunks has been sent on the
\* channel.
C29_DownloadAwaited ==
    dlResult = "Ok" =>
        \A i \in TaskIds :
            i < last_offset(obj) => tasks[i].pc = "sent"

\* ------------------------------------------------------------ Local handle claims
\* The bytes of a chunk whose partial_upload returned Ok are on the disk
\* where the chunk put them.
StillWritten(k) ==
    LET start == k.chunk.offset * chunk_size(dst)
    IN  /\ is_some(dstDisk)
        /\ Len(unwrap(dstDisk)) >= start + Len(k.chunk.data)
        /\ SubSeq(unwrap(dstDisk), start + 1, start + Len(k.chunk.data))
             = k.chunk.data

\* C30: under every interleaving of the partial_upload calls and of the
\* partial_download tasks on one Local object the file is created once at
\* most and opened once at most, no later call truncates what an earlier one
\* wrote, and a handle slot that was filled is filled in every later state.
C30_LocalHandleCreatedOnce ==
    /\ dstFile.creates <= 1
    /\ srcFile.opens <= 1
    /\ (dstFile.creates = 1) <=> is_some(dstFile.handle)
    /\ (srcFile.opens = 1) <=> is_some(srcFile.handle)
    /\ dst.backend = "Local" =>
          \A k \in calls : (k.pc = "done" /\ k.result = "Ok") => StillWritten(k)

\* C30 witness: two chunks were written through one created handle while a
\* third call had failed to create the file before, and two download tasks
\* went through one opened handle.
C30_Witness ==
    /\ dstFile.creates = 1
    /\ Len(dstFile.writes) >= 2
    /\ \E k \in calls : k.result = "FileOperationError" /\ k.why = "create"
    /\ srcFile.opens = 1
    /\ Cardinality({i \in TaskIds : tasks[i].pc \in {"sending", "sent", "panicked"}}) >= 2

\* ------------------------------------------------------------ channel closure claims
\* C35: the receiver finds the channel closed only after every task the
\* download spawned has ended, having sent its chunk or failed, and by then it
\* has received every chunk that was sent: reading until closure misses no
\* chunk.
C35_ClosureFollowsTasks ==
    rx = "closed" =>
        /\ dlResult # "none"
        /\ \A i \in TaskIds :
               /\ tasks[i].pc \in {"unspawned", "sent", "failed", "panicked"}
               /\ (dlResult = "Ok" /\ i < last_offset(obj)) => tasks[i].pc # "unspawned"
               /\ tasks[i].pc = "sent" =>
                     \E j \in 1..Len(rcvd) : rcvd[j] = unwrap(tasks[i].chunk)
        /\ chan = <<>>

\* C35 witness: the channel closed on a download of several tasks after the
\* chunks that were sent had been received.
C35_Witness ==
    /\ rx = "closed"
    /\ dlResult = "Ok"
    /\ last_offset(obj) >= 2
    /\ Len(rcvd) >= 1

\* ------------------------------------------------------------ OAuth claims
\* Request h is a callback that went on to the token exchange, or beyond it.
PastCsrfGate(h) ==
    /\ oauth.requests[h].kind = "callback_auth"
    /\ \/ oauth.requests[h].pc \in {"verifier", "exchange", "send"}
       \/ oauth.requests[h].outcome = "/auth/complete"
       \/ oauth.requests[h].verifier # 0

\* C37: a callback goes on to the token exchange only with the state of a
\* CSRF token that an init_auth before it stored; no two callbacks get past
\* the check with the same state or exchange with the same PKCE verifier, so
\* every Token on the channel comes from a callback whose state was stored,
\* equal and not used before.
C37_CsrfGateSingleUse ==
    \A h \in Requests :
        PastCsrfGate(h) =>
            /\ oauth.requests[h].state >= 1
            /\ \E g \in Requests :
                   /\ g < h
                   /\ oauth.requests[g].kind = "init_auth"
                   /\ oauth.requests[g].csrf = oauth.requests[h].state
            /\ \A h2 \in Requests \ {h} :
                   PastCsrfGate(h2) =>
                       /\ oauth.requests[h2].state # oauth.requests[h].state
                       /\ oauth.requests[h].verifier # 0
                            => oauth.requests[h2].verifier # oauth.requests[h].verifier

\* C37 witness: a callback sent its Token, and a later callback with the
\* same state was turned away.
C37_Witness ==
    \E h, h2 \in Requests :
        /\ h < h2
        /\ oauth.requests[h].outcome = "/auth/complete"
        /\ oauth.requests[h2].kind = "callback_auth"
        /\ oauth.requests[h2].state = oauth.requests[h].state
        /\ oauth.requests[h2].outcome \in {"/auth/failed", "/auth/infringe"}

\* A callback waits in send on a full channel that nothing reads before the
\* server has returned, and the server waits for the callback.
SendNeverReturns(h) ==
    /\ oauth.requests[h].pc = "send"
    /\ Len(oauth.chan) = 1
    /\ oauth.pc \in {"serving", "draining"}

\* C38: every callback_auth, whatever its outcome, sets the shutdown flag;
\* the web server then stops and get_access_token returns, with Some(access
\* token) when a callback sent a Token and with None otherwise.
C38_FlowTerminates ==
    /\ \A h \in Requests :
          /\ (oauth.requests[h].kind = "callback_auth"
                 /\ oauth.requests[h].pc = "done") => oauth.shutdown_flag
          /\ ~SendNeverReturns(h)
    /\ (oauth.pc = "returned" /\ oauth.via = "server") =>
          (is_some(oauth.result)
              <=> \E h \in Requests : oauth.requests[h].outcome = "/auth/complete")

\* C39: get_access_token returns the stored token without authenticating
\* again only when it is unexpired, its scopes are the ones asked for and its
\* application_id is the caller's client_id; a stored token of another
\* application is neither returned nor used for a refresh.
C39_CachedTokenBoundToApplication ==
    /\ (oauth.pc = "returned" /\ oauth.via = "stored") =>
          /\ is_some(oauth.stored)
          /\ oauth.result = Some(unwrap(oauth.stored).access_token)
          /\ unwrap(oauth.stored).unexpired
          /\ unwrap(oauth.stored).scopes = RequestedScopes
          /\ unwrap(oauth.stored).application_id = ClientId
    /\ is_some(oauth.refresh_used) =>
          unwrap(oauth.refresh_used).application_id = ClientId

\* ------------------------------------------------------------ builder claims
Built == bld.result = "Ok" /\ obj.backend \in Backends

\* The locator a built object was made from names an existing byte stream:
\* a regular file at the Local path, an object of exactly that key in the
\* bucket, a file with content at the end of the whole Drive path.
NamesStream ==
    LET info == unwrap(bld.file_info)
    IN  IF bld.backend = "Local" THEN world.local.kind = "file"
        ELSE IF bld.backend = "AmazonS3"
        THEN \E o \in world.s3 : o.key = info.path
        ELSE /\ res.path_names # <<>>
             /\ \E f \in world.drive :
                    /\ f.id \in Level(res.path_names, Len(res.path_names))
                    /\ is_some(f.size)

\* C25: every object a builder produces has file_size = Some exactly when its
\* locator names an existing byte stream; a Drive object with a non-empty
\* residual never has file_size = Some and is never download-eligible.
C25_FileSizeNamesStream ==
    Built =>
        /\ is_some(file_size(obj)) <=> NamesStream
        /\ (obj.backend = "GoogleDrive" /\ obj.not_exist_file_paths # <<>>)
              => is_none(file_size(obj)) /\ ~is_downloadable(obj)

\* C26: after any builder calls, build and any set_chunk_size calls the
\* object's chunk_size is positive, so the chunk count of download is never
\* a division by zero; a builder that was never given a chunk size builds
\* with 8 MiB.
C26_ChunkSizePositive ==
    /\ bld.backend \in Backends => bld.chunk_size > 0
    /\ obj.backend \in Backends => chunk_size(obj) > 0
    /\ Built => ~(dlResult = "panic" /\ is_some(file_size(obj))
                                     /\ is_downloadable(obj))

\* build has returned.
BuildReturned ==
    bld.backend \in Backends
        /\ bld.result \notin {"none", "resolving", "set_file_path failed"}

\* C27: for each of the three builders, build with no path set fails with
\* BuilderError and build with a path of another backend's prefix fails with
\* InvalidArgumentError; neither produces an object.
C27_BuilderErrorKinds ==
    BuildReturned =>
        /\ is_none(bld.file_info)
             => bld.result = "BuilderError" /\ obj = NoObject
        /\ (is_some(bld.file_info)
               /\ unwrap(bld.file_info).prefix \notin own_prefixes(bld.backend))
             => bld.result = "InvalidArgumentError" /\ obj = NoObject

====
